---- MODULE Spec2Model ----
(***************************************************************************)
(* Keyword filter (search_json_objects) of the sites/tasks assistants, in  *)
(* its three variants (crew_ai, semantic_kernel, google_adk), and the      *)
(* label dispatch of crew_ai's run_sites_tasks_agent_query.                *)
(*                                                                         *)
(* A Python str is a sequence of characters; a character is a one-letter   *)
(* TLA+ string, except the two non-ASCII letters of the model, which are   *)
(* named by their code points "U+00C9" and "U+00E9".                       *)
(* A JSON value is [kind |-> "str" | "list" | "dict" | "null", val |-> _]; *)
(* a dict keeps its items in insertion order as a sequence of <<key,       *)
(* value>> pairs.                                                          *)
(***************************************************************************)
EXTENDS Naturals, Sequences, FiniteSets

VARIABLES
    variant,        \* which variant of the program is the running process
    all_stopwords,  \* utils.all_stopwords, the module-level stop-word set
    data,           \* the list object the caller passes to search_json_objects
    query,          \* the query string the caller passes
    result,         \* what the call returned: [returned, value, same_object]
    pc,             \* "idle", "called" (call in progress), "returned"
    context_json,   \* crew_ai: the loaded knowledge/data.json
    label,          \* crew_ai: the classifier's output for the current query
    trace,          \* crew_ai: the calls made for the current query, in order
    helper,         \* crew_ai: the step-2 task: [agent, payload]
    crew_pc,        \* crew_ai: "idle", "classified", "routed", "returned"
    crew_return,    \* crew_ai: what run_sites_tasks_agent_query returned
    hist,           \* the completed calls of search_json_objects, in order
    callers,        \* concurrent callers of search_json_objects: their locals
    details,        \* what get_site_details returned
    func,           \* function_app: the global agent_response and the requests
    core,           \* crew_ai: the frame of handle_user_request
    adk,            \* SitesTasksAgent: session state, events, position
    cache,          \* semantic_kernel: the cached data and the file reads
    flat            \* get_task_details / TASK branch: the dataset and all_tasks

filter_vars == <<data, query, result, pc>>

crew_vars == <<context_json, label, trace, helper, crew_pc, crew_return>>

other_vars == <<hist, callers, details, func, core, adk, cache, flat>>

vars == <<variant, all_stopwords, data, query, result, pc,
          context_json, label, trace, helper, crew_pc, crew_return,
          hist, callers, details, func, core, adk, cache, flat>>

-----------------------------------------------------------------------------
(* Bounds of the model *)

MaxRecords == 2
MaxQueryPieces == 2
MaxLabelPieces == 1

-----------------------------------------------------------------------------
(* Characters and strings *)

UpperCase ==
    <<"A", "B", "C", "D", "E", "F", "G", "H", "I", "J", "K", "L", "M",
      "N", "O", "P", "Q", "R", "S", "T", "U", "V", "W", "X", "Y", "Z">>

LowerCase ==
    <<"a", "b", "c", "d", "e", "f", "g", "h", "i", "j", "k", "l", "m",
      "n", "o", "p", "q", "r", "s", "t", "u", "v", "w", "x", "y", "z">>

Digits == {"0", "1", "2", "3", "4", "5", "6", "7", "8", "9"}

\* The non-ASCII letters of the model: E with acute accent, capital and small.
NonAsciiUpper == "U+00C9"
NonAsciiLower == "U+00E9"

Range(s) == {s[i] : i \in 1..Len(s)}

\* str.lower() on one character.
LowerChar(c) ==
    IF c \in Range(UpperCase)
    THEN LowerCase[CHOOSE i \in 1..Len(UpperCase) : UpperCase[i] = c]
    ELSE IF c = NonAsciiUpper THEN NonAsciiLower ELSE c

\* str.upper() on one character.
UpperChar(c) ==
    IF c \in Range(LowerCase)
    THEN UpperCase[CHOOSE i \in 1..Len(LowerCase) : LowerCase[i] = c]
    ELSE IF c = NonAsciiLower THEN NonAsciiUpper ELSE c

\* str.lower()
Lower(s) == [i \in 1..Len(s) |-> LowerChar(s[i])]

\* str.upper()
Upper(s) == [i \in 1..Len(s) |-> UpperChar(s[i])]

\* A faulty IsWordChar: the underscore is not a word character.
IsWordChar_NoUnderscore(c) ==
    \/ c \in Range(UpperCase) \cup Range(LowerCase) \cup Digits
    \/ c \in {NonAsciiUpper, NonAsciiLower}

\* The characters the regular expression \w matches (Unicode-aware for str).
IsWordChar(c) ==
    \/ c \in Range(UpperCase) \cup Range(LowerCase) \cup Digits
    \/ c = "_"
    \/ c \in {NonAsciiUpper, NonAsciiLower}

\* re.findall(r'\w+', s): the maximal runs of word characters, left to right.
\* Scan(s, i, cur, acc): cur is the run being read, acc the runs found so far.
RECURSIVE Scan(_, _, _, _)
Scan(s, i, cur, acc) ==
    IF i > Len(s)
    THEN IF cur = <<>> THEN acc ELSE Append(acc, cur)
    ELSE IF IsWordChar(s[i])
         THEN Scan(s, i + 1, Append(cur, s[i]), acc)
         ELSE Scan(s, i + 1, <<>>, IF cur = <<>> THEN acc ELSE Append(acc, cur))

FindallWords(s) == Scan(s, 1, <<>>, <<>>)

\* k in s, for two str: k occurs in s as a contiguous substring.
IsSubstring(k, s) ==
    \E i \in 0..(Len(s) - Len(k)) : \A j \in 1..Len(k) : s[i + j] = k[j]

RECURSIVE Concat(_)
Concat(ss) == IF ss = <<>> THEN <<>> ELSE Head(ss) \o Concat(Tail(ss))

-----------------------------------------------------------------------------
(* json.dumps with its defaults: ensure_ascii=True, separators ", " and    *)
(* ": ", dict items in insertion order.                                    *)

Str(s) == [kind |-> "str", val |-> s]
List(xs) == [kind |-> "list", val |-> xs]
Dict(items) == [kind |-> "dict", val |-> items]
None == [kind |-> "null", val |-> <<>>]

\* A Python object json.dumps has no encoding for (a set, a datetime, ...).
NotJson == [kind |-> "object", val |-> <<>>]

\* bool(v) of a JSON value.
Truthy(v) ==
    CASE v.kind \in {"dict", "list", "str"} -> v.val # <<>>
      [] v.kind = "null" -> FALSE
      [] OTHER -> TRUE

\* json.dumps(v) returns; otherwise it raises TypeError.
RECURSIVE Serializable(_)
Serializable(v) ==
    CASE v.kind = "object" -> FALSE
      [] v.kind = "list" -> \A i \in 1..Len(v.val) : Serializable(v.val[i])
      [] v.kind = "dict" -> \A i \in 1..Len(v.val) : Serializable(v.val[i][2])
      [] OTHER -> TRUE

\* The JSON encoding of one character of a string.
EscapeChar(c) ==
    CASE c = "\"" -> <<"\\", "\"">>
      [] c = "\\" -> <<"\\", "\\">>
      [] c = NonAsciiUpper -> <<"\\", "u", "0", "0", "c", "9">>
      [] c = NonAsciiLower -> <<"\\", "u", "0", "0", "e", "9">>
      [] OTHER -> <<c>>

DumpsStr(s) == <<"\"">> \o Concat([i \in 1..Len(s) |-> EscapeChar(s[i])]) \o <<"\"">>

\* ", ".join(parts)
RECURSIVE Join(_)
Join(parts) ==
    IF parts = <<>> THEN <<>>
    ELSE IF Len(parts) = 1 THEN parts[1]
    ELSE parts[1] \o <<",", " ">> \o Join(Tail(parts))

RECURSIVE Dumps(_)
Dumps(v) ==
    CASE v.kind = "str" -> DumpsStr(v.val)
      [] v.kind = "null" -> <<"n", "u", "l", "l">>
      [] v.kind = "list" ->
            <<"[">> \o Join([i \in 1..Len(v.val) |-> Dumps(v.val[i])]) \o <<"]">>
      [] v.kind = "dict" ->
            <<"{">>
            \o Join([i \in 1..Len(v.val) |->
                       DumpsStr(v.val[i][1]) \o <<":", " ">> \o Dumps(v.val[i][2])])
            \o <<"}">>

-----------------------------------------------------------------------------
(* The stop-word sets, built when utils.py is imported *)

\* stopwords.words('english') of the nltk corpus (the entries the model uses).
nltk_stopwords ==
    { <<"i">>, <<"m", "e">>, <<"m", "y">>, <<"t", "h", "e">>, <<"a", "n", "d">>,
      <<"o", "f">>, <<"a">>, <<"a", "n">>, <<"i", "n">>, <<"w", "i", "t", "h">>,
      <<"a", "l", "l">>, <<"a", "b", "o", "u", "t">>, <<"w", "h", "a", "t">>,
      <<"i", "s">>, <<"a", "r", "e">>, <<"h", "o", "w">> }

custom_stopwords_crew_ai ==
    { <<"s", "i", "t", "e">>,
      <<"s", "i", "t", "e", "s">>,
      <<"t", "a", "s", "k">>,
      <<"t", "a", "s", "k", "s">>,
      <<"s", "h", "o", "w">>,
      <<"m", "e">>,
      <<"d", "e", "t", "a", "i", "l", "s">>,
      <<"o", "f">>,
      <<"t", "h", "e">>,
      <<"a", "n", "d">>,
      <<"p", "l", "e", "a", "s", "e">>,
      <<"g", "i", "v", "e">>,
      <<"i", "n", "f", "o">>,
      <<"i", "n", "f", "o", "r", "m", "a", "t", "i", "o", "n">>,
      <<"a", "b", "o", "u", "t">>,
      <<"l", "i", "s", "t">>,
      <<"a", "l", "l">>,
      <<"g", "e", "t">> }

custom_stopwords_semantic_kernel ==
    { <<"s", "i", "t", "e">>,
      <<"s", "i", "t", "e", "s">>,
      <<"t", "a", "s", "k">>,
      <<"t", "a", "s", "k", "s">>,
      <<"s", "h", "o", "w">>,
      <<"m", "e">>,
      <<"d", "e", "t", "a", "i", "l", "s">>,
      <<"o", "f">>,
      <<"t", "h", "e">>,
      <<"a", "n", "d">>,
      <<"p", "l", "e", "a", "s", "e">>,
      <<"g", "i", "v", "e">>,
      <<"i", "n", "f", "o">>,
      <<"i", "n", "f", "o", "r", "m", "a", "t", "i", "o", "n">>,
      <<"a", "b", "o", "u", "t">>,
      <<"l", "i", "s", "t">>,
      <<"a", "l", "l">>,
      <<"g", "e", "t">>,
      <<"s", "t", "a", "t", "u", "s">>,
      <<"a">>,
      <<"a", "n">>,
      <<"w", "i", "t", "h">>,
      <<"m", "y">>,
      <<"i", "n">>,
      <<"t", "a", "b", "l", "e">>,
      <<"e", "n", "t", "r", "i", "e", "s">>,
      <<"e", "v", "e", "r", "y", "t", "h", "i", "n", "g">>,
      <<"f", "u", "l", "l">> }

all_stopwords_crew_ai == nltk_stopwords \cup custom_stopwords_crew_ai

all_stopwords_semantic_kernel == nltk_stopwords \cup custom_stopwords_semantic_kernel

Whitespace == {" ", "\n", "\t", "\r"}

\* str.strip(): leading and trailing whitespace removed.
RECURSIVE LStrip(_)
LStrip(s) == IF s # <<>> /\ Head(s) \in Whitespace THEN LStrip(Tail(s)) ELSE s

RECURSIVE RStrip(_)
RStrip(s) ==
    IF s # <<>> /\ s[Len(s)] \in Whitespace THEN RStrip(SubSeq(s, 1, Len(s) - 1)) ELSE s

Strip(s) == RStrip(LStrip(s))

\* google_adk: the set of the non-blank stripped lines of the file, as they
\* are written in it; the empty set when the file does not exist.
load_stopwords_from_file(file) ==
    IF ~file.exists THEN {}
    ELSE {Strip(file.lines[i]) : i \in {j \in 1..Len(file.lines) : Strip(file.lines[j]) # <<>>}}

\* The contents knowledge/stopwords.txt may have when google_adk starts.
StopwordFiles ==
    { [exists |-> FALSE, lines |-> <<>>],
      [exists |-> TRUE,
       lines |-> << <<"t", "h", "e", "\n">>, <<"m", "e", "\n">>,
                    <<"s", "h", "o", "w", "\n">>, <<"\n">> >>],
      [exists |-> TRUE,
       lines |-> << <<"T", "h", "e", "\n">>, <<"m", "e", "\n">>,
                    <<"s", "h", "o", "w", "\n">> >>] }

-----------------------------------------------------------------------------
(* The inputs of the model *)

site_id == <<"s", "i", "t", "e", "_", "i", "d">>
location_name == <<"l", "o", "c", "a", "t", "i", "o", "n", "_", "n", "a", "m", "e">>
request_tasks == <<"r", "e", "q", "u", "e", "s", "t", "_", "t", "a", "s", "k", "s">>
task_sys_id == <<"t", "a", "s", "k", "_", "s", "y", "s", "_", "i", "d">>

TaskT99 == Dict(<< <<task_sys_id, Str(<<"T", "9", "9">>)>> >>)

SiteAthens ==
    Dict(<< <<site_id, Str(<<"A", "T", "H", "2">>)>>,
            <<location_name, Str(<<"A", "t", "h", "e", "n", "s">>)>> >>)

SiteLondon ==
    Dict(<< <<site_id, Str(<<"L", "O", "N", "1">>)>>,
            <<location_name, Str(<<"L", "o", "n", "d", "o", "n">>)>>,
            <<request_tasks, List(<<TaskT99>>)>> >>)

SiteEvora ==
    Dict(<< <<location_name, Str(<<NonAsciiUpper, "v", "o", "r", "a">>)>> >>)

SiteRecords == {SiteAthens, SiteLondon, SiteEvora}

\* Sequences over S of length at most n.
SeqUpTo(S, n) == UNION {[1..k -> S] : k \in 0..n}

Datasets == SeqUpTo(SiteRecords, MaxRecords)

\* A query is a concatenation of at most MaxQueryPieces of these pieces.
QueryPieces ==
    { <<"S", "h", "o", "w", " ", "m", "e", " ">>,
      <<"A", "T", "H", "2", " ">>,
      <<"a", "t", "h", "2">>,
      <<"9", "9">>,
      <<"c", "9">>,
      <<"?", " ">> }

Queries == {Concat(ps) : ps \in SeqUpTo(QueryPieces, MaxQueryPieces)}

-----------------------------------------------------------------------------
(* search_json_objects *)

\* keywords = [t for t in re.findall(r'\w+', query.lower()) if t not in all_stopwords]
Keywords(q, stopwords) ==
    LET tokens == FindallWords(Lower(q))
    IN  SelectSeq(tokens, LAMBDA t : t \notin stopwords)

\* A faulty AnyKeywordIn: all() in place of any().
AnyKeywordIn_All(obj, keywords) ==
    LET dumped == Lower(Dumps(obj))
    IN  \A i \in 1..Len(keywords) : IsSubstring(keywords[i], dumped)

\* A faulty AnyKeywordIn: a keyword must be the whole of a top-level string
\* field of the object.
AnyKeywordIn_WholeField(obj, keywords) ==
    \E i \in 1..Len(keywords) :
        \E f \in 1..Len(obj.val) :
            /\ obj.val[f][2].kind = "str"
            /\ Lower(obj.val[f][2].val) = keywords[i]

\* any(k in dumped for k in keywords), dumped = json.dumps(obj).lower()
AnyKeywordIn(obj, keywords) ==
    LET dumped == Lower(Dumps(obj))
    IN  \E i \in 1..Len(keywords) : IsSubstring(keywords[i], dumped)

\* The loop: matched holds, in order, the objects of d that pass the test.
Matched(d, keywords) == SelectSeq(d, LAMBDA obj : AnyKeywordIn(obj, keywords))

\* What a call does: the value it returns, whether that value is the very
\* list object it was given, and the contents of the caller's list and of
\* the module's stop-word set when it returns.
Outcome(value, same, d, stopwords) ==
    [value |-> value, same_object |-> same, data |-> d, all_stopwords |-> stopwords,
     raised |-> FALSE]

\* The call ends with an exception instead of a return value.
Raised(d, stopwords) ==
    [value |-> <<>>, same_object |-> FALSE, data |-> d, all_stopwords |-> stopwords,
     raised |-> TRUE]

\* A faulty MatchLoop: an empty matched list is reported as an error.
MatchLoop_RaiseOnEmpty(d, keywords, stopwords) ==
    IF Matched(d, keywords) = <<>>
    THEN Raised(d, stopwords)
    ELSE Outcome(Matched(d, keywords), FALSE, d, stopwords)

\* The for loop and the return after it: every object is dumped, in order,
\* so the first one json.dumps cannot encode ends the call with TypeError;
\* otherwise the new list matched is returned.
MatchLoop(d, keywords, stopwords) ==
    IF \E i \in 1..Len(d) : ~Serializable(d[i])
    THEN Raised(d, stopwords)
    ELSE Outcome(Matched(d, keywords), FALSE, d, stopwords)

\* A faulty search_json_objects_crew_ai: the fallback returns [data].
search_json_objects_crew_ai_Wrapped(d, q, stopwords) ==
    LET keywords == Keywords(q, stopwords)
    IN  IF keywords = <<>>
        THEN Outcome(<<List(d)>>, FALSE, d, stopwords)
        ELSE Outcome(Matched(d, keywords), FALSE, d, stopwords)

\* A faulty search_json_objects: the keywords of a call are added to the
\* module's stop words (all_stopwords.update(keywords)).
search_json_objects_crew_ai_Updates(d, q, stopwords) ==
    LET keywords == Keywords(q, stopwords)
    IN  IF keywords = <<>>
        THEN Outcome(d, TRUE, d, stopwords)
        ELSE Outcome(Matched(d, keywords), FALSE, d, stopwords \cup Range(keywords))

\* crew_ai: with no keywords the input list itself is returned.
search_json_objects_crew_ai(d, q, stopwords) ==
    LET keywords == Keywords(q, stopwords)
    IN  IF keywords = <<>>
        THEN Outcome(d, TRUE, d, stopwords)
        ELSE MatchLoop(d, keywords, stopwords)

\* A faulty search_json_objects_semantic_kernel: the non-matching objects
\* are removed from the input list itself, which is returned.
search_json_objects_semantic_kernel_InPlace(d, q, stopwords) ==
    LET keywords == Keywords(q, stopwords)
    IN  IF keywords = <<>>
        THEN Outcome(<<>>, FALSE, d, stopwords)
        ELSE Outcome(Matched(d, keywords), TRUE, Matched(d, keywords), stopwords)

\* semantic_kernel: with no keywords a new empty list is returned.
search_json_objects_semantic_kernel(d, q, stopwords) ==
    LET keywords == Keywords(q, stopwords)
    IN  IF keywords = <<>>
        THEN Outcome(<<>>, FALSE, d, stopwords)
        ELSE MatchLoop(d, keywords, stopwords)

\* A faulty search_json_objects: the keywords of a call are remembered as
\* stop words of the process.
search_json_objects_google_adk_Learns(d, q, stopwords) ==
    LET keywords == Keywords(q, stopwords)
    IN  IF keywords = <<>>
        THEN Outcome(<<>>, FALSE, d, stopwords)
        ELSE Outcome(Matched(d, keywords), FALSE, d, stopwords \cup Range(keywords))

\* google_adk: the same body as semantic_kernel.
search_json_objects_google_adk(d, q, stopwords) ==
    LET keywords == Keywords(q, stopwords)
    IN  IF keywords = <<>>
        THEN Outcome(<<>>, FALSE, d, stopwords)
        ELSE MatchLoop(d, keywords, stopwords)

-----------------------------------------------------------------------------
(* The process: utils.py is imported, then callers call search_json_objects *)

Variants == {"crew_ai", "semantic_kernel", "google_adk"}

NoResult == [returned |-> FALSE, value |-> <<>>, same_object |-> FALSE, raised |-> FALSE]

\* run_sites_tasks_agent_query has not returned.
NoReturn == [kind |-> "none", val |-> <<>>]

\* It returned the str val / the answer of the helper's crew.
ReturnedStr(val) == [kind |-> "str", val |-> val]

ReturnedHelperAnswer == [kind |-> "helper_answer", val |-> <<>>]

NoDetails == [kind |-> "none", site |-> None]

\* handle_user_request is not running.
NoCore == [pc |-> "idle", raw |-> <<>>, decision |-> <<>>, delegated |-> FALSE,
           final_response |-> [kind |-> "none", val |-> <<>>]]

\* SitesTasksAgent._run_async_impl is not running.
NoIntent == [kind |-> "none", val |-> <<>>]
NoAdk == [pc |-> "idle", h |-> 0, intent |-> NoIntent, log |-> <<>>]

\* No task query is running and no dataset is loaded.
NoFlat == [pc |-> "idle", loaded |-> <<>>, all_data |-> <<>>, queries |-> 0,
           task_query |-> <<>>, all_tasks |-> <<>>,
           answer |-> [kind |-> "none", val |-> <<>>]]

\* Nothing is cached and the data file has not been read.
NoCache == [pc |-> "idle", all_data |-> Dict(<<>>), log |-> <<>>,
            returned |-> [kind |-> "none", val |-> "none"]]

\* function_app: the requests the host delivers and the messages one request
\* may produce.
MaxRequests == 2

MaxMessages == 2

RequestIds == 1..MaxRequests

\* The n-th message with content produced while answering request req; NoMessage
\* stands for None.
Message(req, n) == [req |-> req, n |-> n]

NoMessage == Message(0, 0)

NoRequest ==
    [pc |-> "none", req_body |-> None, loaded |-> FALSE, produced |-> 0,
     final |-> NoMessage, status |-> 0, body |-> "none", response |-> NoMessage]

NoFunc == [agent_response |-> NoMessage, requests |-> [r \in RequestIds |-> NoRequest]]

NoHelper == [agent |-> "none", payload |-> None]

\* The sets all_stopwords can be bound to when the module of variant v has
\* been imported.
StartupStopwords(v) ==
    CASE v = "crew_ai" -> {all_stopwords_crew_ai}
      [] v = "semantic_kernel" -> {all_stopwords_semantic_kernel}
      [] v = "google_adk" -> {load_stopwords_from_file(f) : f \in StopwordFiles}

Init ==
    /\ variant \in Variants
    /\ all_stopwords \in StartupStopwords(variant)
    /\ data = <<>>
    /\ query = <<>>
    /\ result = NoResult
    /\ pc = "idle"
    /\ context_json = Dict(<<>>)
    /\ label = <<>>
    /\ trace = <<>>
    /\ helper = NoHelper
    /\ crew_pc = "idle"
    /\ crew_return = NoReturn
    /\ hist = <<>>
    /\ callers = <<>>
    /\ details = NoDetails
    /\ func = NoFunc
    /\ core = NoCore
    /\ adk = NoAdk
    /\ cache = NoCache
    /\ flat = NoFlat

\* A caller calls search_json_objects(data, query).
Call ==
    /\ pc = "idle"
    /\ \E d \in Datasets, q \in Queries :
          /\ data' = d
          /\ query' = q
    /\ result' = NoResult
    /\ pc' = "called"
    /\ UNCHANGED <<variant, all_stopwords>>
    /\ UNCHANGED crew_vars
    /\ UNCHANGED other_vars

Return(out) ==
    /\ result' = [returned |-> ~out.raised, value |-> out.value,
                  same_object |-> out.same_object, raised |-> out.raised]
    /\ data' = out.data
    /\ all_stopwords' = out.all_stopwords
    /\ pc' = IF out.raised THEN "raised" ELSE "returned"
    /\ UNCHANGED <<variant, query>>
    /\ UNCHANGED crew_vars
    /\ UNCHANGED other_vars

SearchCrewAi ==
    /\ pc = "called"
    /\ variant = "crew_ai"
    /\ Return(search_json_objects_crew_ai(data, query, all_stopwords))

SearchSemanticKernel ==
    /\ pc = "called"
    /\ variant = "semantic_kernel"
    /\ Return(search_json_objects_semantic_kernel(data, query, all_stopwords))

SearchGoogleAdk ==
    /\ pc = "called"
    /\ variant = "google_adk"
    /\ Return(search_json_objects_google_adk(data, query, all_stopwords))

\* The caller is done with the result; the process is ready for the next call.
Done ==
    /\ pc \in {"returned", "raised"}
    /\ data' = <<>>
    /\ query' = <<>>
    /\ result' = NoResult
    /\ pc' = "idle"
    /\ UNCHANGED <<variant, all_stopwords>>
    /\ UNCHANGED crew_vars
    /\ UNCHANGED other_vars

Next == Call \/ SearchCrewAi \/ SearchSemanticKernel \/ SearchGoogleAdk \/ Done

Spec == Init /\ [][Next]_vars

\* A site record with a field json.dumps cannot encode.
SiteBad ==
    Dict(<< <<site_id, Str(<<"B", "A", "D", "1">>)>>,
            <<location_name, NotJson>> >>)

\* A site record whose nested task list holds an object json.dumps cannot
\* encode.
SiteBadTask ==
    Dict(<< <<site_id, Str(<<"B", "A", "D", "2">>)>>,
            <<request_tasks, List(<<NotJson>>)>> >>)

\* The record lists that break the caller's contract: at least one record is
\* not serializable.
BadDatasets ==
    {d \in SeqUpTo({SiteAthens, SiteBad, SiteBadTask}, MaxRecords) :
        \E i \in 1..Len(d) : ~Serializable(d[i])}

\* A caller calls search_json_objects with a list holding a bad record.
CallBad ==
    /\ pc = "idle"
    /\ \E d \in BadDatasets, q \in Queries :
          /\ data' = d
          /\ query' = q
    /\ result' = NoResult
    /\ pc' = "called"
    /\ UNCHANGED <<variant, all_stopwords>>
    /\ UNCHANGED crew_vars
    /\ UNCHANGED other_vars

ErrNext == CallBad \/ SearchCrewAi \/ SearchSemanticKernel \/ SearchGoogleAdk \/ Done

\* The filter process called with record lists that hold a bad record.
ErrSpec == Init /\ [][ErrNext]_vars

-----------------------------------------------------------------------------
(* crew_ai: run_sites_tasks_agent_query *)

data_key == <<"d", "a", "t", "a">>
parent_site_id ==
    <<"p", "a", "r", "e", "n", "t", "_", "s", "i", "t", "e", "_", "i", "d">>
parent_site_name ==
    <<"p", "a", "r", "e", "n", "t", "_", "s", "i", "t", "e", "_", "n", "a", "m", "e">>

\* key in d
HasKey(d, key) == \E i \in 1..Len(d.val) : d.val[i][1] = key

\* d.get(key, default)
DictGet(d, key, default) ==
    IF HasKey(d, key)
    THEN d.val[CHOOSE i \in 1..Len(d.val) : d.val[i][1] = key][2]
    ELSE default

\* d[key] = value: an existing key keeps its place, a new key goes last.
DictSet(d, key, value) ==
    IF HasKey(d, key)
    THEN Dict([i \in 1..Len(d.val) |->
                 IF d.val[i][1] = key THEN <<key, value>> ELSE d.val[i]])
    ELSE Dict(Append(d.val, <<key, value>>))

\* s.startswith(prefix)
StartsWith(s, prefix) ==
    Len(s) >= Len(prefix) /\ SubSeq(s, 1, Len(prefix)) = prefix

\* s[s.find(":")+1:]
AfterColon(s) ==
    IF \E i \in 1..Len(s) : s[i] = ":"
    THEN LET first == CHOOSE i \in 1..Len(s) :
                         s[i] = ":" /\ \A j \in 1..(i - 1) : s[j] # ":"
         IN  SubSeq(s, first + 1, Len(s))
    ELSE s

RELOAD == <<"R", "E", "L", "O", "A", "D">>
SITE == <<"S", "I", "T", "E", ":">>
SEARCH == <<"S", "E", "A", "R", "C", "H", ":">>
TASK == <<"T", "A", "S", "K", ":">>
OVERALL == <<"O", "V", "E", "R", "A", "L", "L", ":">>
SUMMARY == <<"S", "U", "M", "M", "A", "R", "Y">>
LISTALL == <<"L", "I", "S", "T", "A", "L", "L">>

\* A faulty Branch: LISTALL is taken for SUMMARY.
Branch_ListAllAsSummary(l) ==
    CASE Strip(l) = RELOAD -> "RELOAD"
      [] Strip(l) # RELOAD /\ (StartsWith(l, SITE) \/ StartsWith(l, SEARCH)) -> "SITE"
      [] Strip(l) # RELOAD /\ StartsWith(l, TASK) -> "TASK"
      [] Strip(l) # RELOAD /\ StartsWith(l, OVERALL) -> "OVERALL"
      [] l = SUMMARY \/ l = LISTALL -> "SUMMARY"
      [] OTHER -> "FALLBACK"

\* The branch of the if/elif chain a label takes.
Branch(l) ==
    CASE Strip(l) = RELOAD -> "RELOAD"
      [] Strip(l) # RELOAD /\ (StartsWith(l, SITE) \/ StartsWith(l, SEARCH)) -> "SITE"
      [] Strip(l) # RELOAD /\ StartsWith(l, TASK) -> "TASK"
      [] Strip(l) # RELOAD /\ StartsWith(l, OVERALL) -> "OVERALL"
      [] l = SUMMARY -> "SUMMARY"
      [] l = LISTALL -> "LISTALL"
      [] OTHER -> "FALLBACK"

\* context_json and "data" in context_json and isinstance(context_json["data"], list)
HasDataList(ctx) ==
    /\ ctx.val # <<>>
    /\ HasKey(ctx, data_key)
    /\ DictGet(ctx, data_key, None).kind = "list"

\* A faulty dict_copy: no copy is made (task_with_site_context = task).
dict_copy_Alias(obj) == [val |-> obj, same_object |-> TRUE]

\* task.copy(): a new dict with the same items.
dict_copy(obj) == [val |-> obj, same_object |-> FALSE]

\* "request_tasks" in site and isinstance(site["request_tasks"], list)
HasTaskList(site) ==
    HasKey(site, request_tasks) /\ DictGet(site, request_tasks, None).kind = "list"

\* The body of the inner loop for one task of a site: the dict appended to
\* all_tasks, and what the site's own task record holds afterwards.
FlattenTask(task, site) ==
    LET task_with_site_context == dict_copy(task)
        written ==
            DictSet(DictSet(task_with_site_context.val,
                            parent_site_id, DictGet(site, site_id, None)),
                    parent_site_name, DictGet(site, location_name, None))
    IN  [appended |-> written,
         record |-> IF task_with_site_context.same_object THEN written ELSE task]

\* The tasks of one site, each a copy with the parent's id and name set.
TasksOfSite(site) ==
    IF HasTaskList(site)
    THEN LET tasks == DictGet(site, request_tasks, None).val
         IN  [i \in 1..Len(tasks) |-> FlattenTask(tasks[i], site).appended]
    ELSE <<>>

\* One site of the dataset after its tasks went through the loop.
SiteAfterFlatten(site) ==
    IF HasTaskList(site)
    THEN LET tasks == DictGet(site, request_tasks, None).val
         IN  DictSet(site, request_tasks,
                     List([i \in 1..Len(tasks) |-> FlattenTask(tasks[i], site).record]))
    ELSE site

\* The dataset's site list after the loop that builds all_tasks.
sites_after_flatten(sites) == [i \in 1..Len(sites) |-> SiteAfterFlatten(sites[i])]

\* all_tasks: the tasks of all sites, in site order then task order.
all_tasks(sites) == Concat([i \in 1..Len(sites) |-> TasksOfSite(sites[i])])

\* The list search_json_objects is given on the SITE/SEARCH and TASK branches.
FilterInput(branch, ctx) ==
    LET sites == DictGet(ctx, data_key, None).val
    IN  IF branch = "TASK" THEN all_tasks(sites) ELSE sites

\* The query taken from the label on the SITE/SEARCH and TASK branches.
LabelQuery(branch, l) ==
    IF branch = "TASK" THEN Strip(SubSeq(l, Len(TASK) + 1, Len(l)))
    ELSE Strip(AfterColon(l))

\* The JSON put into the helper's task description on the branches that do
\* not filter.
OverallPayload(ctx) == ctx

SummaryPayload(ctx) == ctx

\* A faulty ListAllPayload: the data list goes through the filter first.
ListAllPayload_Filtered(ctx) ==
    LET sites == DictGet(ctx, data_key, List(<<>>))
    IN  IF sites.kind = "list"
        THEN List(search_json_objects_semantic_kernel(
                      sites.val, LISTALL, all_stopwords_crew_ai).value)
        ELSE sites

ListAllPayload(ctx) == DictGet(ctx, data_key, List(<<>>))

\* The contents knowledge/data.json may have.
Contexts ==
    {Dict(<< <<data_key, List(d)>> >>) : d \in Datasets}
    \cup {Dict(<<>>), Dict(<< <<data_key, None>> >>)}

LabelQueries == {Concat(ps) : ps \in SeqUpTo(QueryPieces, MaxLabelPieces)}

\* The outputs of the classifier the model considers.
Labels ==
    {RELOAD, RELOAD \o <<"\n">>, SUMMARY, SUMMARY \o <<"\n">>, LISTALL,
     <<"H", "e", "l", "l", "o">>}
    \cup {prefix \o q : prefix \in {SITE, SEARCH, TASK, OVERALL}, q \in LabelQueries}

CrewInit ==
    /\ variant = "crew_ai"
    /\ all_stopwords = all_stopwords_crew_ai
    /\ data = <<>>
    /\ query = <<>>
    /\ result = NoResult
    /\ pc = "idle"
    /\ context_json \in Contexts
    /\ label = <<>>
    /\ trace = <<>>
    /\ helper = NoHelper
    /\ crew_pc = "idle"
    /\ crew_return = NoReturn
    /\ hist = <<>>
    /\ callers = <<>>
    /\ details = NoDetails
    /\ func = NoFunc
    /\ core = NoCore
    /\ adk = NoAdk
    /\ cache = NoCache
    /\ flat = NoFlat

\* crew_step1.kickoff(): the classifier answers with a label.
Classify ==
    /\ crew_pc = "idle"
    /\ label' \in Labels
    /\ trace' = <<"classify">>
    /\ helper' = NoHelper
    /\ crew_return' = NoReturn
    /\ crew_pc' = "classified"
    /\ data' = <<>>
    /\ query' = <<>>
    /\ result' = NoResult
    /\ UNCHANGED <<variant, all_stopwords, pc, context_json>>
    /\ UNCHANGED other_vars

\* return "RELOAD" / return label: no helper is started.
ReturnEarly(value) ==
    /\ crew_pc' = "returned"
    /\ crew_return' = ReturnedStr(value)
    /\ UNCHANGED <<variant, all_stopwords, filter_vars, context_json, label, trace, helper>>
    /\ UNCHANGED other_vars

RouteReload ==
    /\ crew_pc = "classified"
    /\ Branch(label) = "RELOAD"
    /\ ReturnEarly(RELOAD)

RouteFallback ==
    /\ crew_pc = "classified"
    /\ Branch(label) = "FALLBACK"
    /\ ReturnEarly(label)

\* The SITE/SEARCH and TASK branches: the filter is called when the context
\* holds a data list, and its result goes to the helper.
RouteFiltered(branch, agent) ==
    /\ crew_pc = "classified"
    /\ Branch(label) = branch
    /\ IF HasDataList(context_json)
       THEN LET d == FilterInput(branch, context_json)
                q == LabelQuery(branch, label)
                out == search_json_objects_crew_ai(d, q, all_stopwords)
                filtered_data == IF out.value = <<>> THEN <<>> ELSE out.value
            IN  /\ data' = out.data
                /\ query' = q
                /\ result' = [returned |-> TRUE, value |-> out.value,
                              same_object |-> out.same_object, raised |-> FALSE]
                /\ all_stopwords' = out.all_stopwords
                /\ context_json' =
                     IF branch = "TASK"
                     THEN DictSet(context_json, data_key,
                                  List(sites_after_flatten(
                                           DictGet(context_json, data_key, None).val)))
                     ELSE DictSet(context_json, data_key, List(out.data))
                /\ trace' = Append(trace, "filter")
                /\ helper' = [agent |-> agent, payload |-> List(filtered_data)]
       ELSE /\ helper' = [agent |-> agent, payload |-> List(<<>>)]
            /\ UNCHANGED <<data, query, result, all_stopwords, context_json, trace>>
    /\ crew_pc' = "routed"
    /\ UNCHANGED <<variant, pc, label, crew_return>>
    /\ UNCHANGED other_vars

RouteSiteSearch == RouteFiltered("SITE", "site_helper")

RouteTask == RouteFiltered("TASK", "tasks_helper")

\* The OVERALL, SUMMARY and LISTALL branches.
RouteUnfiltered(branch, agent, payload) ==
    /\ crew_pc = "classified"
    /\ Branch(label) = branch
    /\ helper' = [agent |-> agent, payload |-> payload]
    /\ crew_pc' = "routed"
    /\ UNCHANGED <<variant, all_stopwords, filter_vars, context_json, label, trace, crew_return>>
    /\ UNCHANGED other_vars

RouteOverall == RouteUnfiltered("OVERALL", "overall_agent", OverallPayload(context_json))

RouteSummary == RouteUnfiltered("SUMMARY", "summary_agent", SummaryPayload(context_json))

RouteListAll == RouteUnfiltered("LISTALL", "list_all_agent", ListAllPayload(context_json))

\* crew_step2.kickoff(): the selected helper answers.
HelperKickoff ==
    /\ crew_pc = "routed"
    /\ trace' = Append(trace, "helper")
    /\ crew_return' = ReturnedHelperAnswer
    /\ crew_pc' = "returned"
    /\ UNCHANGED <<variant, all_stopwords, filter_vars, context_json, label, helper>>
    /\ UNCHANGED other_vars

\* The response is shown; the next user query can come.
CrewDone ==
    /\ crew_pc = "returned"
    /\ crew_pc' = "idle"
    /\ label' = <<>>
    /\ trace' = <<>>
    /\ helper' = NoHelper
    /\ crew_return' = NoReturn
    /\ data' = <<>>
    /\ query' = <<>>
    /\ result' = NoResult
    /\ UNCHANGED <<variant, all_stopwords, pc, context_json>>
    /\ UNCHANGED other_vars

CrewNext ==
    \/ Classify
    \/ RouteReload
    \/ RouteSiteSearch
    \/ RouteTask
    \/ RouteOverall
    \/ RouteSummary
    \/ RouteListAll
    \/ RouteFallback
    \/ HelperKickoff
    \/ CrewDone

CrewSpec == CrewInit /\ [][CrewNext]_vars

-----------------------------------------------------------------------------
(* Properties of search_json_objects *)

\* The call has returned: result holds what it returned for (data, query).
Returned == pc = "returned" /\ result.returned

\* The keywords of the current query, as a set.
KeywordSet == Range(Keywords(query, all_stopwords))

\* Some keyword of the current query occurs in the lower-cased dump of obj.
ContainsKeyword(obj) ==
    LET dumped == Lower(Dumps(obj))
    IN  \E k \in KeywordSet : IsSubstring(k, dumped)

\* The positions of the input whose record contains a keyword.
MatchingPositions == {i \in 1..Len(data) : ContainsKeyword(data[i])}

\* xs with the positions outside keep deleted.
RECURSIVE KeepPositions(_, _)
KeepPositions(xs, keep) ==
    IF xs = <<>> THEN <<>>
    ELSE LET front == KeepPositions(SubSeq(xs, 1, Len(xs) - 1), keep)
         IN  IF Len(xs) \in keep THEN Append(front, xs[Len(xs)]) ELSE front

\* C1: when every token of the query is a stop word, so that no keyword
\* survives, search_json_objects returns the empty sequence, in every variant.
C1_EmptyKeywordPolicy ==
    (Returned /\ KeywordSet = {}) => result.value = <<>>

\* C2: when at least one keyword survives, a record is in the result if and
\* only if some surviving keyword is a substring of its lower-cased JSON
\* serialization; when no record contains a keyword the result is empty.
C2_MatchingCriterion ==
    (Returned /\ KeywordSet # {}) =>
        LET matching == MatchingPositions
        IN  /\ \A i \in 1..Len(data) :
                  (data[i] \in Range(result.value)) <=>
                      (\E j \in matching : data[j] = data[i])
            /\ Range(result.value) \subseteq Range(data)
            /\ (matching = {} => result.value = <<>>)

\* C2 witness: two keywords survive and one of two records is kept, on a
\* keyword that is not the first.
C2_Witness ==
    /\ Returned
    /\ Cardinality(KeywordSet) = 2
    /\ Len(data) = 2
    /\ Len(result.value) = 1
    /\ ~IsSubstring(Keywords(query, all_stopwords)[1], Lower(Dumps(result.value[1])))

\* C3: the result is exactly the input sequence with the non-matching
\* positions deleted (order and multiplicity kept, nothing added).
C3_Stability ==
    Returned => result.value = KeepPositions(data, MatchingPositions)

\* C4: a call leaves the input list, the records in it and the stop-word set
\* as they were.
C4_Frame ==
    [][pc = "called" => (data' = data /\ all_stopwords' = all_stopwords)]_vars

\* C4 witness: a call that dropped a record has returned.
C4_Witness ==
    /\ Returned
    /\ Len(data) = 2
    /\ Len(result.value) = 1

\* A search with the variant's function on other inputs than the current ones.
SearchValue(d, q) ==
    CASE variant = "crew_ai" -> search_json_objects_crew_ai(d, q, all_stopwords).value
      [] variant = "semantic_kernel" ->
            search_json_objects_semantic_kernel(d, q, all_stopwords).value
      [] variant = "google_adk" -> search_json_objects_google_adk(d, q, all_stopwords).value

\* A JSON value with the letters of all its strings and keys in lower case.
RECURSIVE LowerValue(_)
LowerValue(v) ==
    CASE v.kind = "str" -> Str(Lower(v.val))
      [] v.kind = "null" -> v
      [] v.kind = "list" -> List([i \in 1..Len(v.val) |-> LowerValue(v.val[i])])
      [] v.kind = "dict" ->
            Dict([i \in 1..Len(v.val) |->
                    <<Lower(v.val[i][1]), LowerValue(v.val[i][2])>>])

LowerRecords(d) == [i \in 1..Len(d) |-> LowerValue(d[i])]

\* C7: queries that differ only in letter case give the same result, and the
\* letter case of the text in the records does not decide which records
\* match: lower-casing the records' text keeps the same positions.
C7_CaseInsensitive ==
    Returned =>
        /\ SearchValue(data, Upper(query)) = result.value
        /\ SearchValue(data, Lower(query)) = result.value
        /\ SearchValue(LowerRecords(data), query) = LowerRecords(result.value)

\* The half of C7 about the query alone.
C7_QueryCaseOnly ==
    Returned =>
        /\ SearchValue(data, Upper(query)) = result.value
        /\ SearchValue(data, Lower(query)) = result.value

\* C8: every entry of the stop-word set is lower-case, and no keyword is,
\* lower-cased, a listed stop word.
C8_StopwordsLowerCase ==
    /\ \A w \in all_stopwords : Lower(w) = w
    /\ \A k \in KeywordSet : k \notin {Lower(w) : w \in all_stopwords}

\* C9: a query with no token at all (empty, or only punctuation and
\* whitespace) gives the empty sequence.
C9_NoTokens ==
    (Returned /\ FindallWords(Lower(query)) = <<>>) => result.value = <<>>

\* C10: on the empty record list the result is the empty list, for every
\* query.
C10_EmptyInput ==
    (Returned /\ data = <<>>) => result.value = <<>>

\* C10 witness: crew_ai returned from a call on the empty list with a query
\* that leaves no keyword.
C10_Witness ==
    /\ Returned
    /\ data = <<>>
    /\ variant = "crew_ai"
    /\ query # <<>>
    /\ KeywordSet = {}

-----------------------------------------------------------------------------
(* Properties of run_sites_tasks_agent_query *)

\* The site records a JSON value carries: those of its "data" list when it
\* is the whole context, its items when it is a list.
SitesIn(v) ==
    CASE v.kind = "dict" ->
            IF HasKey(v, data_key) /\ DictGet(v, data_key, None).kind = "list"
            THEN DictGet(v, data_key, None).val
            ELSE <<>>
      [] v.kind = "list" -> v.val
      [] OTHER -> <<>>

\* The label is one of the aggregate, summary or list-all formats.
UnfilteredKind(l) == StartsWith(l, OVERALL) \/ l = SUMMARY \/ l = LISTALL

\* The label is one of the single-entity or filtered-subset formats.
FilteredKind(l) == StartsWith(l, SITE) \/ StartsWith(l, SEARCH) \/ StartsWith(l, TASK)

\* C5: for an OVERALL:, SUMMARY or LISTALL label search_json_objects is not
\* called and the helper is given the complete, unfiltered dataset.
C5_UnfilteredBypass ==
    (crew_pc \in {"routed", "returned"} /\ UnfilteredKind(label)) =>
        /\ "filter" \notin Range(trace)
        /\ ~result.returned
        /\ helper.agent \in {"overall_agent", "summary_agent", "list_all_agent"}
        /\ SitesIn(helper.payload) = SitesIn(context_json)

\* C5 witness: LISTALL was answered by the helper over a dataset of two sites.
C5_Witness ==
    /\ crew_pc = "returned"
    /\ label = LISTALL
    /\ trace = <<"classify", "helper">>
    /\ Len(SitesIn(context_json)) = 2
    /\ helper.payload = List(SitesIn(context_json))

\* C6: for a SITE:, SEARCH: or TASK: label over a loaded dataset the calls are
\* classification, then the filter, then the helper, and the helper gets
\* exactly the filter's output, a subset of what was filtered that is the
\* whole of it only when every record contains a keyword.
C6_FilteredThenHelper ==
    (crew_pc = "returned" /\ FilteredKind(label) /\ HasDataList(context_json)) =>
        /\ trace = <<"classify", "filter", "helper">>
        /\ result.returned
        /\ helper.payload = List(result.value)
        /\ Range(result.value) \subseteq Range(data)
        /\ (result.value = data => \A i \in 1..Len(data) : ContainsKeyword(data[i]))

-----------------------------------------------------------------------------
\* Error handling of the filter.

\* The call has ended, with a return value or with an exception.
Ended == pc \in {"returned", "raised"}

HasBadRecord == \E i \in 1..Len(data) : ~Serializable(data[i])

\* C12: whenever the record list holds a record that cannot be serialized the
\* call ends in an error, for every query, and never returns a normal result.
C12_FailFast ==
    (Ended /\ HasBadRecord) => (result.raised /\ ~result.returned)

-----------------------------------------------------------------------------
\* A process that serves several calls of search_json_objects, one after the
\* other, and keeps the record of each.

MaxCalls == 3

HistDatasets == {<<>>, <<SiteAthens>>, <<SiteAthens, SiteLondon>>}

HistQueries ==
    {<<"a", "t", "h", "2">>,
     <<"S", "h", "o", "w", " ", "m", "e", " ">>,
     <<"9", "9">>}

\* The variant of search_json_objects the process has imported.
search_json_objects(v, d, q, stopwords) ==
    CASE v = "crew_ai" -> search_json_objects_crew_ai(d, q, stopwords)
      [] v = "semantic_kernel" -> search_json_objects_semantic_kernel(d, q, stopwords)
      [] v = "google_adk" -> search_json_objects_google_adk(d, q, stopwords)

HistCall ==
    /\ pc = "idle"
    /\ Len(hist) < MaxCalls
    /\ \E d \in HistDatasets, q \in HistQueries :
          /\ data' = d
          /\ query' = q
    /\ result' = NoResult
    /\ pc' = "called"
    /\ UNCHANGED <<variant, all_stopwords>>
    /\ UNCHANGED crew_vars
    /\ UNCHANGED other_vars

\* The call runs to its end; the caller notes what it passed and what it got.
HistSearch ==
    /\ pc = "called"
    /\ LET out == search_json_objects(variant, data, query, all_stopwords)
       IN  /\ result' = [returned |-> ~out.raised, value |-> out.value,
                         same_object |-> out.same_object, raised |-> out.raised]
           /\ data' = out.data
           /\ all_stopwords' = out.all_stopwords
           /\ hist' = Append(hist, [data |-> data, query |-> query,
                                    value |-> out.value,
                                    same_object |-> out.same_object,
                                    raised |-> out.raised])
    /\ pc' = "returned"
    /\ UNCHANGED <<variant, query>>
    /\ UNCHANGED crew_vars
    /\ UNCHANGED <<callers, details, func, core, adk, cache, flat>>

HistDone ==
    /\ pc = "returned"
    /\ data' = <<>>
    /\ query' = <<>>
    /\ result' = NoResult
    /\ pc' = "idle"
    /\ UNCHANGED <<variant, all_stopwords>>
    /\ UNCHANGED crew_vars
    /\ UNCHANGED other_vars

HistNext == HistCall \/ HistSearch \/ HistDone

HistSpec == Init /\ [][HistNext]_vars

\* C13: the output of search_json_objects is a function of its inputs only:
\* whatever calls came before, two calls of one process with the same records
\* and the same query end the same way with the same sequence.
C13_Determinism ==
    \A i, j \in 1..Len(hist) :
        (hist[i].data = hist[j].data /\ hist[i].query = hist[j].query) =>
            /\ hist[i].value = hist[j].value
            /\ hist[i].raised = hist[j].raised
            /\ hist[i].same_object = hist[j].same_object

\* C13 witness: a call that found a record is repeated with the same inputs
\* after a call with another query.
C13_Witness ==
    /\ Len(hist) = 3
    /\ hist[1].data = hist[3].data
    /\ hist[1].query = hist[3].query
    /\ hist[2].query # hist[1].query
    /\ hist[2].value # <<>>
    /\ hist[3].value # <<>>
    /\ hist[3].value # hist[3].data

-----------------------------------------------------------------------------
\* Several callers inside search_json_objects at once, over one shared list
\* of records and the module's all_stopwords.  Each caller has its own frame
\* (query, keywords, the loop position, matched) and takes one statement of the
\* function per step.

MaxCallers == 2

CallerIds == 1..MaxCallers

ConcDatasets == {<<SiteAthens, SiteLondon>>, <<SiteLondon, SiteEvora, SiteAthens>>}

IdleFrame ==
    [pc |-> "idle", query |-> <<>>, tokens |-> <<>>, keywords |-> <<>>, i |-> 0,
     matched |-> <<>>, value |-> <<>>, same_object |-> FALSE]

ConcInit ==
    /\ variant \in Variants
    /\ all_stopwords \in StartupStopwords(variant)
    /\ data \in ConcDatasets
    /\ query = <<>>
    /\ result = NoResult
    /\ pc = "idle"
    /\ context_json = Dict(<<>>)
    /\ label = <<>>
    /\ trace = <<>>
    /\ helper = NoHelper
    /\ crew_pc = "idle"
    /\ crew_return = NoReturn
    /\ hist = <<>>
    /\ callers = [c \in CallerIds |-> IdleFrame]
    /\ details = NoDetails
    /\ func = NoFunc
    /\ core = NoCore
    /\ adk = NoAdk
    /\ cache = NoCache
    /\ flat = NoFlat

conc_frame == <<variant, all_stopwords, query, result, pc, hist, details, func, core, adk, cache, flat>>

\* Caller c enters search_json_objects(data, q).
ConcCall(c) ==
    /\ callers[c].pc = "idle"
    /\ \E q \in HistQueries :
          callers' = [callers EXCEPT ![c] = [IdleFrame EXCEPT !.pc = "entered", !.query = q]]
    /\ UNCHANGED data
    /\ UNCHANGED conc_frame
    /\ UNCHANGED crew_vars

\* The value returned when no keyword survives.
NoKeywordReturn(v, d) ==
    IF v = "crew_ai" THEN [value |-> d, same_object |-> TRUE]
    ELSE [value |-> <<>>, same_object |-> FALSE]

\* tokens, keywords and the test of keywords: all_stopwords is read.
ConcTokenize(c) ==
    /\ callers[c].pc = "entered"
    /\ LET tokens == FindallWords(Lower(callers[c].query))
           keywords == Keywords(callers[c].query, all_stopwords)
           ret == NoKeywordReturn(variant, data)
       IN  callers' =
              [callers EXCEPT ![c] =
                  IF keywords = <<>>
                  THEN [@ EXCEPT !.pc = "returned", !.tokens = tokens,
                                 !.value = ret.value,
                                 !.same_object = ret.same_object]
                  ELSE [@ EXCEPT !.pc = "loop", !.tokens = tokens,
                                 !.keywords = keywords,
                                 !.i = 1, !.matched = <<>>]]
    /\ UNCHANGED data
    /\ UNCHANGED conc_frame
    /\ UNCHANGED crew_vars

\* A faulty loop body: a record without a keyword is deleted from the list
\* that was passed in, and that list is what the loop collects.
LoopBody_InPlace(d, keywords, i, matched) ==
    IF AnyKeywordIn(d[i], keywords)
    THEN [data |-> d, i |-> i + 1, matched |-> SubSeq(d, 1, i)]
    ELSE [data |-> SubSeq(d, 1, i - 1) \o SubSeq(d, i + 1, Len(d)), i |-> i,
          matched |-> SubSeq(d, 1, i - 1)]

\* One pass of the loop body on the record at position i: the record is
\* dumped and, when a keyword occurs in the dump, appended to the caller's
\* own list matched.  The list passed in is only read.
LoopBody(d, keywords, i, matched) ==
    [data |-> d, i |-> i + 1,
     matched |-> IF AnyKeywordIn(d[i], keywords) THEN Append(matched, d[i]) ELSE matched]

ConcLoop(c) ==
    /\ callers[c].pc = "loop"
    /\ callers[c].i <= Len(data)
    /\ LET step == LoopBody(data, callers[c].keywords, callers[c].i, callers[c].matched)
       IN  /\ data' = step.data
           /\ callers' = [callers EXCEPT ![c] =
                             [@ EXCEPT !.i = step.i, !.matched = step.matched]]
    /\ UNCHANGED conc_frame
    /\ UNCHANGED crew_vars

\* The loop is over: return matched.
ConcReturn(c) ==
    /\ callers[c].pc = "loop"
    /\ callers[c].i > Len(data)
    /\ callers' = [callers EXCEPT ![c] =
                      [@ EXCEPT !.pc = "returned", !.value = callers[c].matched,
                                !.same_object = FALSE]]
    /\ UNCHANGED data
    /\ UNCHANGED conc_frame
    /\ UNCHANGED crew_vars

\* The caller has used the value; it may call again.
ConcDone(c) ==
    /\ callers[c].pc = "returned"
    /\ callers' = [callers EXCEPT ![c] = IdleFrame]
    /\ UNCHANGED data
    /\ UNCHANGED conc_frame
    /\ UNCHANGED crew_vars

ConcNext ==
    \E c \in CallerIds :
        ConcCall(c) \/ ConcTokenize(c) \/ ConcLoop(c) \/ ConcReturn(c) \/ ConcDone(c)

ConcSpec == ConcInit /\ [][ConcNext]_vars

\* C14: under every interleaving of the callers' steps, each caller that has
\* returned holds the value the same call gives when it runs alone, and the
\* shared list and the stop words are as they were given.
C14_ConcurrentSameAsAlone ==
    /\ data \in ConcDatasets
    /\ \A c \in CallerIds :
          callers[c].pc = "returned" =>
              LET alone == search_json_objects(variant, data, callers[c].query, all_stopwords)
              IN  /\ callers[c].value = alone.value
                  /\ callers[c].same_object = alone.same_object

\* C14 witness: two callers with different queries have both returned, each
\* with a different non-empty value, from loops that ran interleaved.
C14_Witness ==
    /\ callers[1].pc = "returned"
    /\ callers[2].pc = "returned"
    /\ callers[1].query # callers[2].query
    /\ callers[1].value # <<>>
    /\ callers[2].value # <<>>
    /\ callers[1].value # callers[2].value
    /\ Len(callers[1].value) < Len(data)

-----------------------------------------------------------------------------
\* The process-wide state of the filter.

\* C15: all_stopwords is bound once, when the module is imported, to the set
\* built from the variant's source list, and no step of the program adds to
\* it, removes from it or rebinds it.
C15_StopwordsFixed ==
    /\ all_stopwords \in StartupStopwords(variant)
    /\ [][all_stopwords' = all_stopwords /\ variant' = variant]_vars

\* C15 witness: a call whose query held a stop word and a keyword has
\* returned a record, and all_stopwords is a set built at start-up.
C15_Witness ==
    /\ Returned
    /\ result.value # <<>>
    /\ \E t \in Range(FindallWords(Lower(query))) : t \in all_stopwords
    /\ KeywordSet # {}
    /\ all_stopwords \in StartupStopwords(variant)

-----------------------------------------------------------------------------
\* Tokenization: one caller, queries built from identifiers, punctuation and
\* white space.

MaxTokPieces == 3

TokPieces ==
    { task_sys_id,
      <<"A", "T", "H", "2">>,
      <<" ">>,
      <<"?">>,
      <<"-", "_">>,
      <<NonAsciiUpper>> }

TokQueries == {Concat(ps) : ps \in SeqUpTo(TokPieces, MaxTokPieces)}

TokCall(c) ==
    /\ callers[c].pc = "idle"
    /\ \E q \in TokQueries :
          callers' = [callers EXCEPT ![c] = [IdleFrame EXCEPT !.pc = "entered", !.query = q]]
    /\ UNCHANGED data
    /\ UNCHANGED conc_frame
    /\ UNCHANGED crew_vars

TokNext ==
    \/ TokCall(1)
    \/ ConcTokenize(1)
    \/ ConcLoop(1)
    \/ ConcReturn(1)
    \/ ConcDone(1)

TokSpec == ConcInit /\ [][TokNext]_vars

\* A letter, a digit or the underscore.
IsAlnumOrUnderscore(c) ==
    c \in Range(UpperCase) \cup Range(LowerCase) \cup Digits
          \cup {NonAsciiUpper, NonAsciiLower, "_"}

\* The positions of s where a maximal run of such characters starts.
RunStarts(s) ==
    {a \in 1..Len(s) :
        IsAlnumOrUnderscore(s[a]) /\ (a = 1 \/ ~IsAlnumOrUnderscore(s[a - 1]))}

\* The last position of the maximal run that starts at a.
RunEnd(s, a) ==
    CHOOSE b \in a..Len(s) :
        /\ \A k \in a..b : IsAlnumOrUnderscore(s[k])
        /\ b = Len(s) \/ ~IsAlnumOrUnderscore(s[b + 1])

\* The caller's call has computed its tokens.
Tokenized(c) == callers[c].pc \in {"loop", "returned"}

\* C16: the tokens of a query are exactly the maximal runs of letters, digits
\* and underscores of the lower-cased query, in order of occurrence; no token
\* is empty or holds a separator.
C16_Tokenization ==
    Tokenized(1) =>
        LET s == Lower(callers[1].query)
            tokens == callers[1].tokens
            starts == RunStarts(s)
        IN  /\ Len(tokens) = Cardinality(starts)
            /\ \A a \in starts :
                  tokens[Cardinality({x \in starts : x <= a})] = SubSeq(s, a, RunEnd(s, a))
            /\ \A k \in 1..Len(tokens) :
                  /\ tokens[k] # <<>>
                  /\ Range(tokens[k]) \cap {" ", "?", "-", "\n"} = {}

\* C16 witness: the query "ATH2?task_sys_id" has been cut into the two
\* tokens "ath2" and "task_sys_id".
C16_Witness ==
    /\ Tokenized(1)
    /\ callers[1].query = <<"A", "T", "H", "2", "?">> \o task_sys_id
    /\ callers[1].tokens = << <<"a", "t", "h", "2">>, task_sys_id >>

-----------------------------------------------------------------------------
\* What a keyword is matched against.

\* v, the keys of v as strings, and every value nested in v at any depth.
RECURSIVE SubValues(_)
SubValues(v) ==
    {v} \cup
    CASE v.kind = "list" -> UNION {SubValues(v.val[i]) : i \in 1..Len(v.val)}
      [] v.kind = "dict" ->
            UNION {{Str(v.val[i][1])} \cup SubValues(v.val[i][2]) : i \in 1..Len(v.val)}
      [] OTHER -> {}

\* Keyword k occurs in the lower-cased serialization of v.
OccursIn(k, v) == IsSubstring(k, Lower(Dumps(v)))

\* C17: matching is a substring test over the whole serialized record: a
\* record is in the result as soon as a keyword occurs anywhere in the
\* serialization of any value nested in it, as a part of a longer value or
\* inside one of its nested task objects.
C17_SubstringOfWholeRecord ==
    (Returned /\ KeywordSet # {}) =>
        \A i \in 1..Len(data) :
            (\E k \in KeywordSet : \E v \in SubValues(data[i]) : OccursIn(k, v))
                => data[i] \in Range(result.value)

\* C17 witness: the keyword "99" occurs in London only inside the nested task
\* T99, as a proper part of its task_sys_id, and London is in the result.
C17_Witness ==
    /\ Returned
    /\ KeywordSet = {<<"9", "9">>}
    /\ SiteLondon \in Range(data)
    /\ SiteLondon \in Range(result.value)
    /\ OccursIn(<<"9", "9">>, TaskT99)
    /\ Str(<<"9", "9">>) \notin SubValues(SiteLondon)
    /\ \A f \in 1..Len(SiteLondon.val) :
          SiteLondon.val[f][2].kind = "str" => ~OccursIn(<<"9", "9">>, SiteLondon.val[f][2])

-----------------------------------------------------------------------------
\* Aliasing of the returned list.

\* C18: the sequence a call returns is a newly allocated list, never the
\* caller's input list itself, on every return path.
C18_FreshResult ==
    Returned => ~result.same_object

-----------------------------------------------------------------------------
\* get_site_details of semantic_kernel and google_adk.

\* A site whose site_id is also an English stop word.
SiteMe ==
    Dict(<< <<site_id, Str(<<"M", "E">>)>>,
            <<location_name, Str(<<"M", "a", "i", "n", "e">>)>> >>)

DetailsSites == {SiteAthens, SiteLondon, SiteEvora, SiteMe}

DetailsDatasets == SeqUpTo(DetailsSites, MaxRecords)

DetailsQueries ==
    { <<"A", "T", "H", "2">>,
      <<"a", "t", "h", "e", "n", "s">>,
      <<"L", "o", "n", "d", "o", "n">>,
      <<"M", "E">>,
      <<NonAsciiUpper, "v", "o", "r", "a">>,
      <<"9", "9">>,
      <<"S", "h", "o", "w", " ", "m", "e", " ">> }

DetailsVariants == {"semantic_kernel", "google_adk"}

DetailsInit ==
    /\ variant \in DetailsVariants
    /\ all_stopwords \in StartupStopwords(variant)
    /\ data = <<>>
    /\ query = <<>>
    /\ result = NoResult
    /\ pc = "idle"
    /\ context_json = Dict(<<>>)
    /\ label = <<>>
    /\ trace = <<>>
    /\ helper = NoHelper
    /\ crew_pc = "idle"
    /\ crew_return = NoReturn
    /\ hist = <<>>
    /\ callers = <<>>
    /\ details = NoDetails
    /\ func = NoFunc
    /\ core = NoCore
    /\ adk = NoAdk
    /\ cache = NoCache
    /\ flat = NoFlat

\* site.get("site_id", "").lower() == site_query.lower()
\*   or site.get("location_name", "").lower() == site_query.lower()
IsExactMatch(site, site_query) ==
    \/ Lower(DictGet(site, site_id, Str(<<>>)).val) = Lower(site_query)
    \/ Lower(DictGet(site, location_name, Str(<<>>)).val) = Lower(site_query)

\* The body of get_site_details: what it answers for site_query over sites.
get_site_details(v, sites, site_query, stopwords) ==
    LET filtered_sites == search_json_objects(v, sites, site_query, stopwords).value
        exact == {i \in 1..Len(filtered_sites) : IsExactMatch(filtered_sites[i], site_query)}
        site_found ==
            IF exact # {}
            THEN filtered_sites[CHOOSE i \in exact : \A j \in exact : i <= j]
            ELSE filtered_sites[1]
    IN  IF filtered_sites = <<>>
        THEN [kind |-> "no_site_found", site |-> None]
        ELSE IF site_found.val = <<>>
             THEN [kind |-> "no_relevant_site", site |-> None]
             ELSE [kind |-> "details", site |-> site_found]

\* The agent calls the tool get_site_details(site_query) over the loaded sites.
DetailsCall ==
    /\ pc = "idle"
    /\ \E d \in DetailsDatasets, q \in DetailsQueries :
          /\ data' = d
          /\ query' = q
    /\ details' = NoDetails
    /\ pc' = "called"
    /\ UNCHANGED <<variant, all_stopwords, result>>
    /\ UNCHANGED crew_vars
    /\ UNCHANGED <<hist, callers, func, core, adk, cache, flat>>

DetailsReturn ==
    /\ pc = "called"
    /\ details' = get_site_details(variant, data, query, all_stopwords)
    /\ pc' = "returned"
    /\ UNCHANGED <<variant, all_stopwords, data, query, result>>
    /\ UNCHANGED crew_vars
    /\ UNCHANGED <<hist, callers, func, core, adk, cache, flat>>

DetailsDone ==
    /\ pc = "returned"
    /\ data' = <<>>
    /\ query' = <<>>
    /\ details' = NoDetails
    /\ pc' = "idle"
    /\ UNCHANGED <<variant, all_stopwords, result>>
    /\ UNCHANGED crew_vars
    /\ UNCHANGED <<hist, callers, func, core, adk, cache, flat>>

DetailsNext == DetailsCall \/ DetailsReturn \/ DetailsDone

DetailsSpec == DetailsInit /\ [][DetailsNext]_vars

\* The strings a and b are equal when case is ignored.
EqualIgnoringCase(a, b) == Lower(a) = Lower(b)

\* The site at position i of the dataset is the one the query names.
Names(i) ==
    \/ /\ HasKey(data[i], site_id)
       /\ EqualIgnoringCase(DictGet(data[i], site_id, None).val, query)
    \/ /\ HasKey(data[i], location_name)
       /\ EqualIgnoringCase(DictGet(data[i], location_name, None).val, query)

\* C19: when the query equals, ignoring case, the site_id or location_name
\* of some site of the dataset, get_site_details returns the details of the
\* first such site: never a 'No site found' message, never another site.
C19_RetrievesQueriedSite ==
    (pc = "returned" /\ \E i \in 1..Len(data) : Names(i)) =>
        LET first == CHOOSE i \in 1..Len(data) :
                        Names(i) /\ \A j \in 1..Len(data) : Names(j) => i <= j
        IN  /\ details.kind = "details"
            /\ details.site = data[first]

-----------------------------------------------------------------------------
\* function_app: the HTTP trigger skAgenticPoCFunc.  The handler is a
\* coroutine: the host runs the handlers of several requests on one event
\* loop, and they interleave at the awaits inside
\* run_semantic_kernel_agent_query.  agent_response is a module global.

FuncInit ==
    /\ Init
    /\ variant = "semantic_kernel"

func_frame == <<variant, all_stopwords, filter_vars, hist, callers, details, core, adk, cache, flat>>

text_key == <<"t", "e", "x", "t">>

\* A request body that is not JSON: req.get_json() raises ValueError.
InvalidBody == [kind |-> "invalid", val |-> <<>>]

\* The bodies a client may post: not JSON; JSON that is not an object; an
\* object without "text", with an empty or null "text", with a text.
RequestBodies ==
    { InvalidBody,
      List(<<>>),
      None,
      Dict(<<>>),
      Dict(<< <<text_key, Str(<<>>)>> >>),
      Dict(<< <<text_key, None>> >>),
      Dict(<< <<text_key, Str(<<"h", "i">>)>> >>) }

\* The handler of request r, whose body is req_body, ends with an HTTP
\* response: its status code, the kind of its body and, for the body
\* {"response": ...}, the message in it.
RespondTo(r, req_body, loaded, status, body, response) ==
    func' = [func EXCEPT !.requests[r] =
                [@ EXCEPT !.pc = "responded", !.req_body = req_body, !.loaded = loaded,
                          !.status = status, !.body = body, !.response = response]]

\* The same for a handler that is past the load.
Respond(r, status, body, response) ==
    RespondTo(r, func.requests[r].req_body, func.requests[r].loaded, status, body, response)

\* user_input = req_body.get("text"); if not user_input
HasText(req_body) == Truthy(DictGet(req_body, text_key, None))

\* req.get_json() raises ValueError: 400.
RejectInvalidJson(r) ==
    /\ func.requests[r].pc = "none"
    /\ \E req_body \in RequestBodies :
          /\ req_body = InvalidBody
          /\ RespondTo(r, req_body, FALSE, 400, "Invalid JSON body", NoMessage)
    /\ UNCHANGED func_frame
    /\ UNCHANGED crew_vars

\* The body is JSON but not an object: req_body.get raises AttributeError
\* outside of any try, and the handler ends without a response.
GetTextRaises(r) ==
    /\ func.requests[r].pc = "none"
    /\ \E req_body \in RequestBodies :
          /\ req_body.kind \notin {"invalid", "dict"}
          /\ func' = [func EXCEPT !.requests[r] =
                          [@ EXCEPT !.pc = "raised", !.req_body = req_body]]
    /\ UNCHANGED func_frame
    /\ UNCHANGED crew_vars

\* The body has no "text", or an empty one: 400.
RejectMissingText(r) ==
    /\ func.requests[r].pc = "none"
    /\ \E req_body \in RequestBodies :
          /\ req_body.kind = "dict"
          /\ ~HasText(req_body)
          /\ RespondTo(r, req_body, FALSE, 400, "Missing required parameter", NoMessage)
    /\ UNCHANGED func_frame
    /\ UNCHANGED crew_vars

\* knowledge/data.json is not JSON (json.JSONDecodeError) or cannot be opened
\* (except Exception): 500.
DataLoadFails(r) ==
    /\ func.requests[r].pc = "none"
    /\ \E req_body \in RequestBodies :
          /\ req_body.kind = "dict"
          /\ HasText(req_body)
          /\ \E body \in {"Invalid JSON response", "unexpected server error"} :
                RespondTo(r, req_body, TRUE, 500, body, NoMessage)
    /\ UNCHANGED func_frame
    /\ UNCHANGED crew_vars

\* The body is valid and the data is loaded: the handler enters
\* run_semantic_kernel_agent_query and waits at
\* await handoff_orchestration.invoke(...).
StartOrchestration(r) ==
    /\ func.requests[r].pc = "none"
    /\ \E req_body \in RequestBodies :
          /\ req_body.kind = "dict"
          /\ HasText(req_body)
          /\ func' = [func EXCEPT !.requests[r] =
                          [@ EXCEPT !.pc = "running", !.req_body = req_body,
                                    !.loaded = TRUE]]
    /\ UNCHANGED func_frame
    /\ UNCHANGED crew_vars

\* agent_response_callback(message) for a message of request r's
\* orchestration: a message with content is stored in the global.
CallbackStore(f, r, has_content) ==
    IF has_content
    THEN [f EXCEPT !.agent_response = Message(r, f.requests[r].produced + 1),
                   !.requests[r] = [@ EXCEPT !.produced = @ + 1]]
    ELSE f

agent_response_callback(r) ==
    /\ func.requests[r].pc = "running"
    /\ func.requests[r].produced < MaxMessages
    /\ \E has_content \in BOOLEAN : func' = CallbackStore(func, r, has_content)
    /\ UNCHANGED func_frame
    /\ UNCHANGED crew_vars

\* await orchestration_result.get() gives the orchestration's value for this
\* request, after at least one agent message with content; the handler then
\* waits at await runtime.stop_when_idle().
OrchestrationReturns(r) ==
    /\ func.requests[r].pc = "running"
    /\ func.requests[r].produced > 0
    /\ func' = [func EXCEPT !.requests[r] =
                    [@ EXCEPT !.pc = "stopping", !.final = Message(r, func.requests[r].produced)]]
    /\ UNCHANGED func_frame
    /\ UNCHANGED crew_vars

\* The orchestration raises: except Exception, 500.
OrchestrationFails(r) ==
    /\ func.requests[r].pc = "running"
    /\ Respond(r, 500, "unexpected server error", NoMessage)
    /\ UNCHANGED func_frame
    /\ UNCHANGED crew_vars

\* run_semantic_kernel_agent_query returns final_response_content; the
\* handler answers 200 with json.dumps({"response": agent_response}).
RespondOk(r) ==
    /\ func.requests[r].pc = "stopping"
    /\ Respond(r, 200, "response", func.agent_response)
    /\ UNCHANGED func_frame
    /\ UNCHANGED crew_vars

FuncNext ==
    \E r \in RequestIds :
        \/ RejectInvalidJson(r)
        \/ GetTextRaises(r)
        \/ RejectMissingText(r)
        \/ DataLoadFails(r)
        \/ StartOrchestration(r)
        \/ agent_response_callback(r)
        \/ OrchestrationReturns(r)
        \/ OrchestrationFails(r)
        \/ RespondOk(r)

FuncSpec == FuncInit /\ [][FuncNext]_vars

\* C20: the 200 response of a request carries a message produced while
\* answering that same request, never one produced for another request (and
\* never the absence of a message).
C20_ResponseOfSameRequest ==
    \A r \in RequestIds :
        func.requests[r].status = 200 => func.requests[r].response.req = r

-----------------------------------------------------------------------------
\* A caller that asks for q1, for q2 and then for "q1 q2" over the same list.

UnionQueries ==
    { <<>>,
      <<"a", "t", "h", "2">>,
      <<"9", "9">>,
      <<"l", "o", "n", "d", "o", "n">>,
      <<"S", "h", "o", "w", " ", "m", "e">> }

\* One whole call of search_json_objects(d, q), noted in hist.
NotedCall(d, q) ==
    LET out == search_json_objects(variant, d, q, all_stopwords)
    IN  /\ data' = out.data
        /\ all_stopwords' = out.all_stopwords
        /\ query' = q
        /\ hist' = Append(hist, [data |-> d, query |-> q, value |-> out.value,
                                 same_object |-> out.same_object,
                                 raised |-> out.raised])
        /\ UNCHANGED <<variant, result, pc>>
        /\ UNCHANGED crew_vars
        /\ UNCHANGED <<callers, details, func, core, adk, cache, flat>>

UnionFirst ==
    /\ hist = <<>>
    /\ \E d \in HistDatasets, q1 \in UnionQueries : NotedCall(d, q1)

UnionSecond ==
    /\ Len(hist) = 1
    /\ \E q2 \in UnionQueries : NotedCall(hist[1].data, q2)

UnionBoth ==
    /\ Len(hist) = 2
    /\ NotedCall(hist[1].data, hist[1].query \o <<" ">> \o hist[2].query)

UnionDone ==
    /\ Len(hist) = 3
    /\ hist' = <<>>
    /\ data' = <<>>
    /\ query' = <<>>
    /\ UNCHANGED <<variant, all_stopwords, result, pc>>
    /\ UNCHANGED crew_vars
    /\ UNCHANGED <<callers, details, func, core, adk, cache, flat>>

UnionNext == UnionFirst \/ UnionSecond \/ UnionBoth \/ UnionDone

UnionSpec == Init /\ [][UnionNext]_vars

\* The records of d that are in xs or in ys, in the order of d.
OrderedUnion(d, xs, ys) ==
    SelectSeq(d, LAMBDA obj : obj \in Range(xs) \cup Range(ys))

\* C21: the result for "q1 q2" holds every record of the result for q1 and
\* of the result for q2, and is the order-preserving union of the two.
C21_UnionLaw ==
    Len(hist) = 3 =>
        /\ Range(hist[1].value) \subseteq Range(hist[3].value)
        /\ Range(hist[2].value) \subseteq Range(hist[3].value)
        /\ hist[3].value = OrderedUnion(hist[3].data, hist[1].value, hist[2].value)

-----------------------------------------------------------------------------
\* The model calls of run_sites_tasks_agent_query.

\* How often x occurs in the sequence xs.
Count(xs, x) == Cardinality({i \in 1..Len(xs) : xs[i] = x})

\* The label is RELOAD.
IsReloadLabel(l) == Strip(l) = RELOAD

\* The helper a label selects by its format; "none" for RELOAD and for a label
\* of no format.
SelectedAgent(l) ==
    CASE IsReloadLabel(l) -> "none"
      [] StartsWith(l, SITE) \/ StartsWith(l, SEARCH) -> "site_helper"
      [] StartsWith(l, TASK) -> "tasks_helper"
      [] StartsWith(l, OVERALL) -> "overall_agent"
      [] l = SUMMARY -> "summary_agent"
      [] l = LISTALL -> "list_all_agent"
      [] OTHER -> "none"

\* C22: the classification call is made exactly once and first; RELOAD
\* returns "RELOAD" and a label of no format returns the label unchanged, both
\* without a helper call; every other label is followed by exactly one helper
\* call, made to the agent the label selects.
C22_ModelCalls ==
    /\ crew_pc # "idle" => (trace[1] = "classify" /\ Count(trace, "classify") = 1)
    /\ crew_pc \in {"idle", "classified", "routed"} => Count(trace, "helper") = 0
    /\ crew_pc = "returned" =>
          IF IsReloadLabel(label)
          THEN crew_return = ReturnedStr(RELOAD) /\ Count(trace, "helper") = 0
          ELSE IF SelectedAgent(label) = "none"
               THEN crew_return = ReturnedStr(label) /\ Count(trace, "helper") = 0
               ELSE /\ Count(trace, "helper") = 1
                    /\ trace[Len(trace)] = "helper"
                    /\ helper.agent = SelectedAgent(label)
                    /\ crew_return = ReturnedHelperAnswer

\* C22 witness: a TASK: label was classified, filtered and answered by one
\* call of tasks_helper.
C22_Witness ==
    /\ crew_pc = "returned"
    /\ StartsWith(label, TASK)
    /\ trace = <<"classify", "filter", "helper">>
    /\ helper.agent = "tasks_helper"
    /\ crew_return = ReturnedHelperAnswer

\* The handler that answered the current label: the helper that was called,
\* "reload" or "fallback".
HandlerTaken ==
    IF Count(trace, "helper") > 0 THEN helper.agent
    ELSE IF crew_return = ReturnedStr(RELOAD) THEN "reload"
    ELSE "fallback"

\* The handler of a label written without surrounding whitespace.
HandlerOf(l) ==
    IF l = RELOAD THEN "reload"
    ELSE IF SelectedAgent(l) = "none" THEN "fallback"
    ELSE SelectedAgent(l)

\* C23: a label with leading or trailing whitespace is routed to the same
\* handler as the label with that whitespace removed, for all seven formats.
C23_WhitespaceUniform ==
    crew_pc = "returned" => HandlerTaken = HandlerOf(Strip(label))

-----------------------------------------------------------------------------
\* crew_ai: handle_user_request.

MaxCorePieces == 2

sitetasks == <<"*", "s", "i", "t", "e", "t", "a", "s", "k", "s", "*">>

\* What the core delegator's crew may answer: the delegation command in some
\* case, direct answers, white space.
CorePieces ==
    { sitetasks,
      <<"*", "S", "i", "t", "e", "T", "a", "s", "k", "s", "*">>,
      <<"H", "e", "l", "l", "o", "!">>,
      <<"*", "f", "a", "q", "*">>,
      <<" ">>,
      <<"\n">> }

CoreOutputs == {Concat(ps) : ps \in SeqUpTo(CorePieces, MaxCorePieces)}

DefaultResponse == [kind |-> "default", val |-> <<>>]

core_frame ==
    <<variant, all_stopwords, filter_vars, hist, callers, details, func, adk, cache, flat>>

\* core_crew.kickoff().raw.strip().lower(), then the default final_response.
CoreKickoff ==
    /\ core.pc = "idle"
    /\ \E raw \in CoreOutputs :
          core' = [pc |-> "decided", raw |-> raw, decision |-> Lower(Strip(raw)),
                   delegated |-> FALSE, final_response |-> DefaultResponse]
    /\ UNCHANGED core_frame
    /\ UNCHANGED crew_vars

\* The if/else on core_agent_decision and the return.
CoreRoute ==
    /\ core.pc = "decided"
    /\ core' =
          IF core.decision = sitetasks
          THEN [core EXCEPT !.pc = "returned", !.delegated = TRUE,
                            !.final_response = [kind |-> "sitetasks_answer", val |-> <<>>]]
          ELSE [core EXCEPT !.pc = "returned",
                            !.final_response = [kind |-> "str", val |-> core.decision]]
    /\ UNCHANGED core_frame
    /\ UNCHANGED crew_vars

CoreDone ==
    /\ core.pc = "returned"
    /\ core' = NoCore
    /\ UNCHANGED core_frame
    /\ UNCHANGED crew_vars

CoreNext == CoreKickoff \/ CoreRoute \/ CoreDone

CoreSpec == CrewInit /\ [][CoreNext]_vars

\* C24: handle_user_request delegates exactly when the decision, trimmed and
\* lower-cased, is "*sitetasks*"; otherwise it returns the core agent's direct
\* response with its content unchanged; the default text is returned only
\* when neither applies.
C24_DelegateOrDirect ==
    core.pc = "returned" =>
        /\ core.delegated <=> Lower(Strip(core.raw)) = sitetasks
        /\ ~core.delegated =>
              /\ core.final_response.kind = "str"
              /\ core.final_response.val = Strip(core.raw)
        /\ core.final_response.kind # "default"


\* ---------------------------------------------------------------------------
\* SitesTasksAgent._run_async_impl (sites_tasks_agent.py, the same body in
\* google_adk/sites_tasks_agent.py).  adk.log records, in order, every event
\* the generator yields, the read of the intent and the start and the end of
\* every helper's loop.  The delegator stores its final response under the
\* session key "intent" (output_key).

MaxAgentEvents == 2
MaxIntentPieces == 2

KW_SITE == <<"S","I","T","E">>
KW_TASK == <<"T","A","S","K">>
KW_OVERALL == <<"O","V","E","R","A","L","L">>

\* A faulty order of the three blocks: the tasks helper before the sites helper.
HelperOrder_TasksFirst == <<"tasks_helper", "sites_helper", "overall_helper">>

\* The three `if` blocks in the order of the code.
HelperOrder == <<"sites_helper", "tasks_helper", "overall_helper">>

\* The word each block looks for in the intent.
HelperKeyword(h) ==
    CASE h = "sites_helper" -> KW_SITE
      [] h = "tasks_helper" -> KW_TASK
      [] h = "overall_helper" -> KW_OVERALL

\* What the delegator's model may answer: the three words alone, two of them
\* together, a lower-case word, blanks, nothing.
IntentPieces == { KW_SITE, KW_TASK, KW_OVERALL, <<"s","i","t","e">>, <<" ">> }
AdkIntents == {Concat(ps) : ps \in SeqUpTo(IntentPieces, MaxIntentPieces)}

adk_frame ==
    <<variant, all_stopwords, filter_vars, crew_vars, hist, callers, details, func, core, cache, flat>>

AdkInit ==
    /\ Init
    /\ variant = "google_adk"

Logged(op, who) == [op |-> op, who |-> who]

EventsOf(who) ==
    Cardinality({i \in 1..Len(adk.log) : adk.log[i] = Logged("event", who)})

\* The runner invokes the agent.
AdkInvoke ==
    /\ adk.pc = "idle"
    /\ adk' = [adk EXCEPT !.pc = "delegator"]
    /\ UNCHANGED adk_frame

\* The delegator yields an event, which _run_async_impl yields on; its final
\* response is stored as the intent.
DelegatorYield ==
    /\ adk.pc = "delegator"
    /\ EventsOf("delegator") < MaxAgentEvents
    /\ \E final \in BOOLEAN : \E i \in AdkIntents :
          adk' = [adk EXCEPT !.log = Append(adk.log, Logged("event", "delegator")),
                             !.intent = IF final THEN Str(i) ELSE adk.intent]
    /\ UNCHANGED adk_frame

\* The delegator's loop ends.
DelegatorEnds ==
    /\ adk.pc = "delegator"
    /\ adk' = [adk EXCEPT !.pc = "read_intent"]
    /\ UNCHANGED adk_frame

\* ctx.session.state.get('intent'): "Intent: " + None raises.
ReadIntent ==
    /\ adk.pc = "read_intent"
    /\ adk' = IF adk.intent = NoIntent
              THEN [adk EXCEPT !.pc = "raised"]
              ELSE [adk EXCEPT !.pc = "check", !.h = 1,
                               !.log = Append(adk.log, Logged("read_intent", "agent"))]
    /\ UNCHANGED adk_frame

AfterBlock(h) == IF h = Len(HelperOrder) THEN "returned" ELSE "check"

\* One `if '<WORD>' in intent:` test.
HelperCheck ==
    /\ adk.pc = "check"
    /\ LET who == HelperOrder[adk.h] IN
          adk' = IF IsSubstring(HelperKeyword(who), adk.intent.val)
                 THEN [adk EXCEPT !.pc = "run",
                                  !.log = Append(adk.log, Logged("start", who))]
                 ELSE [adk EXCEPT !.pc = AfterBlock(adk.h),
                                  !.h = IF adk.h = Len(HelperOrder) THEN 0 ELSE adk.h + 1]
    /\ UNCHANGED adk_frame

\* The running helper yields an event, which _run_async_impl yields on.
HelperYield ==
    /\ adk.pc = "run"
    /\ EventsOf(HelperOrder[adk.h]) < MaxAgentEvents
    /\ adk' = [adk EXCEPT !.log = Append(adk.log, Logged("event", HelperOrder[adk.h]))]
    /\ UNCHANGED adk_frame

\* The running helper's loop ends.
HelperEnds ==
    /\ adk.pc = "run"
    /\ adk' = [adk EXCEPT !.pc = AfterBlock(adk.h),
                          !.h = IF adk.h = Len(HelperOrder) THEN 0 ELSE adk.h + 1,
                          !.log = Append(adk.log, Logged("end", HelperOrder[adk.h]))]
    /\ UNCHANGED adk_frame

\* The invocation is over; the next one starts from a fresh session.
AdkDone ==
    /\ adk.pc \in {"returned", "raised"}
    /\ adk' = NoAdk
    /\ UNCHANGED adk_frame

AdkNext ==
    \/ AdkInvoke
    \/ DelegatorYield
    \/ DelegatorEnds
    \/ ReadIntent
    \/ HelperCheck
    \/ HelperYield
    \/ HelperEnds
    \/ AdkDone

AdkSpec == AdkInit /\ [][AdkNext]_vars

Rank(who) ==
    CASE who = "delegator" -> 0
      [] who = "agent" -> 0
      [] who = "sites_helper" -> 1
      [] who = "tasks_helper" -> 2
      [] who = "overall_helper" -> 3

HelpersRun == {adk.log[i].who : i \in {j \in 1..Len(adk.log) : adk.log[j].op = "start"}}

\* C25: every event of the delegator is yielded before the intent is read and
\* before any helper starts; helpers start in the order sites, tasks, overall,
\* each at most once; and a helper's events are yielded only after every
\* helper started before it has ended.
C25_Ordering ==
    \A i \in 1..Len(adk.log) : \A j \in 1..Len(adk.log) :
        i < j =>
            /\ adk.log[j] = Logged("event", "delegator") =>
                  adk.log[i].op \notin {"read_intent", "start"}
            /\ (adk.log[i].op = "start" /\ adk.log[j].op = "start") =>
                  Rank(adk.log[i].who) < Rank(adk.log[j].who)
            /\ (adk.log[i].op = "start" /\ adk.log[j].op = "event"
                    /\ adk.log[j].who # adk.log[i].who) =>
                  \E k \in (i + 1)..(j - 1) : adk.log[k] = Logged("end", adk.log[i].who)
            /\ adk.log[j].op \in {"start", "event", "end"} /\ adk.log[j].who # "delegator" =>
                  \E k \in 1..j : adk.log[k].op = "read_intent"

\* Two helpers have run, each with its events, one after the other.
C25_Witness ==
    /\ adk.pc = "returned"
    /\ Cardinality(HelpersRun) >= 2
    /\ \A who \in HelpersRun : EventsOf(who) > 0
    /\ EventsOf("delegator") = MaxAgentEvents

\* C26: when an invocation returns, exactly one of the three helpers has run.
C26_ExactlyOneHelper ==
    adk.pc = "returned" => Cardinality(HelpersRun) = 1


\* ---------------------------------------------------------------------------
\* Task queries: get_task_details of semantic_kernel_v2 (the plugin holds the
\* dataset it was constructed with) and of google_adk (call_api() reads the
\* file on every call), and the TASK branch of crew_ai's
\* run_sites_tasks_agent_query.  flat.loaded is the dataset as the file holds
\* it, flat.all_data the dict object in memory.

MaxTaskSites == 2
MaxTaskQueries == 2

classification ==
    <<"c", "l", "a", "s", "s", "i", "f", "i", "c", "a", "t", "i", "o", "n">>

TaskT1 ==
    Dict(<< <<task_sys_id, Str(<<"T", "1">>)>>,
            <<classification, Str(<<"S", "u", "r", "v", "e", "y">>)>> >>)

TaskT2 == Dict(<< <<task_sys_id, Str(<<"T", "2">>)>> >>)

SiteParis ==
    Dict(<< <<site_id, Str(<<"P", "A", "R", "3">>)>>,
            <<location_name, Str(<<"P", "a", "r", "i", "s">>)>>,
            <<request_tasks, List(<<TaskT1, TaskT2>>)>> >>)

\* A site whose request_tasks is not a list.
SiteOslo ==
    Dict(<< <<site_id, Str(<<"O", "S", "L", "4">>)>>,
            <<request_tasks, Str(<<"n", "o", "n", "e">>)>> >>)

TaskSites == {SiteAthens, SiteLondon, SiteParis, SiteOslo}

TaskContexts ==
    {Dict(<< <<data_key, List(d)>> >>) : d \in SeqUpTo(TaskSites, MaxTaskSites)}
    \cup {Dict(<<>>)}

TaskQueries ==
    { <<>>,
      <<"T", "9", "9">>,
      <<"t", "1">>,
      <<"s", "u", "r", "v", "e", "y">>,
      <<"P", "a", "r", "i", "s">>,
      <<"S", "h", "o", "w", " ", "m", "e", " ">> }

TaskInit ==
    /\ variant \in Variants
    /\ all_stopwords \in StartupStopwords(variant)
    /\ data = <<>>
    /\ query = <<>>
    /\ result = NoResult
    /\ pc = "idle"
    /\ context_json = Dict(<<>>)
    /\ label = <<>>
    /\ trace = <<>>
    /\ helper = NoHelper
    /\ crew_pc = "idle"
    /\ crew_return = NoReturn
    /\ hist = <<>>
    /\ callers = <<>>
    /\ details = NoDetails
    /\ func = NoFunc
    /\ core = NoCore
    /\ adk = NoAdk
    /\ cache = NoCache
    /\ \E ctx \in TaskContexts :
          flat = [pc |-> "idle", loaded |-> ctx, all_data |-> ctx, queries |-> 0,
                  task_query |-> <<>>, all_tasks |-> <<>>,
                  answer |-> [kind |-> "none", val |-> <<>>]]

flat_frame ==
    <<variant, filter_vars, crew_vars, hist, callers, details, func, core, adk, cache>>

\* task.get("task_sys_id", "").lower() == task_query.lower()
\*   or task.get("classification", "").lower() == task_query.lower()
IsExactTask(task, task_query) ==
    \/ Lower(DictGet(task, task_sys_id, Str(<<>>)).val) = Lower(task_query)
    \/ Lower(DictGet(task, classification, Str(<<>>)).val) = Lower(task_query)

\* What the caller does with filtered_tasks: crew_ai hands the list to the
\* tasks helper, get_task_details answers with one task or with a message.
TaskAnswer(v, filtered_tasks, task_query) ==
    LET exact == {i \in 1..Len(filtered_tasks) : IsExactTask(filtered_tasks[i], task_query)}
        task_found ==
            IF exact # {}
            THEN filtered_tasks[CHOOSE i \in exact : \A j \in exact : i <= j]
            ELSE filtered_tasks[1]
    IN  IF v = "crew_ai" THEN [kind |-> "helper_payload", val |-> filtered_tasks]
        ELSE IF filtered_tasks = <<>> THEN [kind |-> "no_task_found", val |-> <<>>]
        ELSE [kind |-> "task", val |-> <<task_found>>]

\* The loop over the sites that builds all_tasks.
TaskFlatten ==
    /\ flat.pc = "idle"
    /\ flat.queries < MaxTaskQueries
    /\ \E q \in TaskQueries :
          LET all_data == IF variant = "google_adk" THEN flat.loaded ELSE flat.all_data
              sites == DictGet(all_data, data_key, List(<<>>)).val
          IN  flat' = [flat EXCEPT
                         !.pc = "flattened",
                         !.queries = flat.queries + 1,
                         !.task_query = q,
                         !.all_tasks = all_tasks(sites),
                         !.all_data = IF HasKey(all_data, data_key)
                                      THEN DictSet(all_data, data_key,
                                                   List(sites_after_flatten(sites)))
                                      ELSE all_data]
    /\ UNCHANGED all_stopwords
    /\ UNCHANGED flat_frame

\* search_json_objects(all_tasks, task_query) and what follows it.
TaskSearch ==
    /\ flat.pc = "flattened"
    /\ LET out == search_json_objects(variant, flat.all_tasks, flat.task_query, all_stopwords)
       IN  /\ flat' = [flat EXCEPT
                          !.pc = "returned",
                          !.all_tasks = out.data,
                          !.answer = IF out.raised
                                     THEN [kind |-> "raised", val |-> <<>>]
                                     ELSE TaskAnswer(variant, out.value, flat.task_query)]
           /\ all_stopwords' = out.all_stopwords
    /\ UNCHANGED flat_frame

\* The answer went back to the agent; the next task query can come.
TaskDone ==
    /\ flat.pc = "returned"
    /\ flat' = [flat EXCEPT !.pc = "idle", !.task_query = <<>>, !.all_tasks = <<>>,
                            !.answer = [kind |-> "none", val |-> <<>>]]
    /\ UNCHANGED all_stopwords
    /\ UNCHANGED flat_frame

TaskNext == TaskFlatten \/ TaskSearch \/ TaskDone

TaskSpec == TaskInit /\ [][TaskNext]_vars

LoadedSites == DictGet(flat.loaded, data_key, List(<<>>)).val

\* The number of tasks of the i-th loaded site.
NumTasks(i) ==
    IF HasTaskList(LoadedSites[i])
    THEN Len(DictGet(LoadedSites[i], request_tasks, None).val)
    ELSE 0

\* The number of tasks of the loaded sites before the i-th.
RECURSIVE Offset(_)
Offset(i) == IF i <= 1 THEN 0 ELSE Offset(i - 1) + NumTasks(i - 1)

\* A flattened task without the two fields the loop adds.
WithoutParent(task) ==
    Dict(SelectSeq(task.val, LAMBDA kv : kv[1] \notin {parent_site_id, parent_site_name}))

\* C27: building all_tasks leaves every site and task record of the dataset
\* as it was loaded, after any number of task queries; and all_tasks holds the
\* tasks in site order then task order, each with its parent's id and name.
C27_FlattenFrame ==
    /\ flat.all_data = flat.loaded
    /\ flat.pc = "flattened" =>
          /\ Len(flat.all_tasks) = Offset(Len(LoadedSites) + 1)
          /\ \A i \in 1..Len(LoadedSites) : \A j \in 1..NumTasks(i) :
                LET flattened == flat.all_tasks[Offset(i) + j]
                IN  /\ WithoutParent(flattened) =
                          DictGet(LoadedSites[i], request_tasks, None).val[j]
                    /\ DictGet(flattened, parent_site_id, NotJson) =
                          DictGet(LoadedSites[i], site_id, None)
                    /\ DictGet(flattened, parent_site_name, NotJson) =
                          DictGet(LoadedSites[i], location_name, None)

\* The second task query over two sites that both have tasks has flattened
\* three tasks.
C27_Witness ==
    /\ flat.pc = "flattened"
    /\ flat.queries = MaxTaskQueries
    /\ Len(LoadedSites) = 2
    /\ NumTasks(1) = 2
    /\ NumTasks(2) = 1
    /\ Len(flat.all_tasks) = 3


\* ---------------------------------------------------------------------------
\* semantic_kernel: run_semantic_kernel_agent_query and the module global
\* all_data (semantic_kernel_v2/main.py: _global_site_tasks_data, the same
\* code).  There is no await between the test of all_data and the start of the
\* orchestration, so one query's load is one step.  cache.log has one entry
\* per query: what happened to the file, whether the agent was started, and
\* the cached data afterwards.

MaxCacheQueries == 3

\* What open() and json.load() find when a query reads the data file.
FileContents ==
    { Dict(<<>>),
      List(<<>>),
      Dict(<< <<data_key, List(<<>>)>> >>),
      Dict(<< <<data_key, List(<<SiteAthens>>)>> >>) }

FileStates ==
    {[status |-> "ok", content |-> c] : c \in FileContents}
    \cup {[status |-> s, content |-> None] : s \in {"not_found", "invalid_json", "other_error"}}

\* if not all_data:
NeedsLoad(all_data) == ~Truthy(all_data)

cache_frame ==
    <<variant, all_stopwords, filter_vars, crew_vars, hist, callers, details, func, core, adk, flat>>

CacheInit ==
    /\ Init
    /\ variant = "semantic_kernel"

QueryEntry(read, started, all_data) ==
    [read |-> read, started |-> started, all_data |-> all_data]

\* A query finds data cached: the file is not opened, the agent runs.
QueryCached ==
    /\ cache.pc = "idle"
    /\ Len(cache.log) < MaxCacheQueries
    /\ ~NeedsLoad(cache.all_data)
    /\ cache' = [cache EXCEPT
                    !.pc = "running",
                    !.log = Append(cache.log, QueryEntry("none", TRUE, cache.all_data))]
    /\ UNCHANGED cache_frame

\* A query finds nothing cached and the load succeeds: the agent runs.
QueryLoads ==
    /\ cache.pc = "idle"
    /\ Len(cache.log) < MaxCacheQueries
    /\ NeedsLoad(cache.all_data)
    /\ \E file \in FileStates :
          /\ file.status = "ok"
          /\ cache' = [cache EXCEPT
                          !.pc = "running",
                          !.all_data = file.content,
                          !.log = Append(cache.log, QueryEntry("ok", TRUE, file.content))]
    /\ UNCHANGED cache_frame

\* A query finds nothing cached and the load fails: an error string is
\* returned.
QueryLoadFails ==
    /\ cache.pc = "idle"
    /\ Len(cache.log) < MaxCacheQueries
    /\ NeedsLoad(cache.all_data)
    /\ \E file \in FileStates :
          /\ file.status # "ok"
          /\ cache' = [cache EXCEPT
                          !.pc = "returned",
                          !.returned = [kind |-> "error", val |-> file.status],
                          !.log = Append(cache.log,
                                         QueryEntry("failed", FALSE, cache.all_data))]
    /\ UNCHANGED cache_frame

\* The orchestration ends and its result is returned.
AgentReturns ==
    /\ cache.pc = "running"
    /\ cache' = [cache EXCEPT !.pc = "returned",
                              !.returned = [kind |-> "agent_answer", val |-> "none"]]
    /\ UNCHANGED cache_frame

\* The chat loop asks for the next query.
CacheDone ==
    /\ cache.pc = "returned"
    /\ cache' = [cache EXCEPT !.pc = "idle",
                              !.returned = [kind |-> "none", val |-> "none"]]
    /\ UNCHANGED cache_frame

CacheNext == QueryCached \/ QueryLoads \/ QueryLoadFails \/ AgentReturns \/ CacheDone

CacheSpec == CacheInit /\ [][CacheNext]_vars

SuccessfulReads == {i \in 1..Len(cache.log) : cache.log[i].read = "ok"}

\* A failed load returns an error string without starting the agent and
\* leaves the cached data empty, and the query after it opens the file again.
FailedLoadRetried ==
    \A i \in 1..Len(cache.log) :
        cache.log[i].read = "failed" =>
            /\ ~cache.log[i].started
            /\ ~Truthy(cache.log[i].all_data)
            /\ i = Len(cache.log) => cache.pc \in {"returned", "idle"}
            /\ (i = Len(cache.log) /\ cache.pc = "returned") => cache.returned.kind = "error"
            /\ i < Len(cache.log) => cache.log[i + 1].read # "none"

\* C28: over any sequence of queries the data file is read successfully at
\* most once, and a failed load returns an error string without starting the
\* agent, leaves the cache empty and is followed by another attempt.
C28_LoadOnce ==
    /\ Cardinality(SuccessfulReads) <= 1
    /\ FailedLoadRetried


\* The handler of request r has ended.
HandlerEnded(r) == func.requests[r].pc \in {"responded", "raised"}

\* The body of request r fails the validation: it is not JSON, or it is JSON
\* without a non-empty "text".
FailsValidation(r) ==
    \/ func.requests[r].req_body = InvalidBody
    \/ func.requests[r].req_body.kind # "dict"
    \/ ~HasText(func.requests[r].req_body)

\* C29: every handler that ends, ends with an HTTP response; a body that is
\* not JSON, or JSON without a non-empty 'text', gets 400 with no data load
\* and no orchestration; a failure after validation gets a JSON error body
\* with a 5xx status.
C29_Validation ==
    \A r \in RequestIds :
        /\ func.requests[r].pc # "raised"
        /\ (HandlerEnded(r) /\ FailsValidation(r)) =>
              /\ func.requests[r].status = 400
              /\ ~func.requests[r].loaded
              /\ func.requests[r].produced = 0
        /\ (func.requests[r].pc = "responded" /\ ~FailsValidation(r)) =>
              \/ func.requests[r].status = 200
              \/ /\ func.requests[r].status >= 500
                 /\ func.requests[r].body \in {"Invalid JSON response", "unexpected server error"}
        /\ func.requests[r].pc \in {"running", "stopping"} =>
              (~FailsValidation(r) /\ func.requests[r].loaded)

\* The same with the bodies that are JSON but no object left out.
C29_ObjectBodies ==
    \A r \in RequestIds :
        /\ func.requests[r].pc = "raised" => func.requests[r].req_body.kind \in {"list", "null"}
        /\ (HandlerEnded(r) /\ FailsValidation(r) /\ func.requests[r].pc # "raised") =>
              /\ func.requests[r].status = 400
              /\ ~func.requests[r].loaded
              /\ func.requests[r].produced = 0

====
